---- MODULE Spec2Model ----
(***************************************************************************)
(* A model of the PSB / MDF codec of emote-psb: the number codec, the      *)
(* integer-array codec, the handle codec, the value codec, the name trie   *)
(* ("binary tree") codec, the file writer and reader and the MDF wrapper.  *)
(*                                                                         *)
(* 64-bit integers are 8-tuples of bytes, least significant byte first     *)
(* (the wire order), so that every width of the format keeps its width.    *)
(* Stream positions, lengths and counts are naturals.                      *)
(***************************************************************************)
EXTENDS Integers, Sequences, FiniteSets, TLC

VARIABLES
    build,      \* "debug" (overflow checks panic) or "release" (they wrap)
    pc,         \* position of the scenario being run
    psbValue,   \* value codec: the PsbValue given to write_bytes_refs
    stream,     \* value codec: the bytes in the stream
    written,    \* value codec: result of the write
    decoded,    \* value codec: result of the read
    width,      \* number codec: the number_size given to read_integer
    nameList,   \* name trie: the names given to PsbBinaryTree::write_bytes
    trie,       \* name trie: result of the first execution of write_bytes
    trie2,      \* name trie: result of the second execution of write_bytes
    listed,     \* name trie: result of PsbBinaryTree::from_bytes
    run,        \* name trie: executions of write_bytes so far
    psb,        \* file: the VirtualPsb given to PsbWriter::finish
    sinkStart,  \* file: the position of the sink when finish begins
    finished,   \* file: result of finish, with the sink it leaves
    opened,     \* file: result of open_psb and load on that sink
    finished2,  \* file: result of finish on the loaded VirtualPsb
    opened2,    \* file: result of open_psb and load on the second sink
    patch,      \* file: the field of the written file that was changed, if any
    rootRead,   \* file: result of PsbFile::read_root on the opened file
    mdfInput,   \* MDF: the bytes given to MdfWriter
    mdfWritten, \* MDF: result of MdfWriter::finish, with the sink it leaves
    mdfOpened   \* MDF: result of open_mdf_file on that sink

valueVars == <<psbValue, stream, written, decoded, width>>
treeVars == <<nameList, trie, trie2, listed, run>>
fileVars == <<psb, sinkStart, finished, opened, finished2, opened2, patch, rootRead>>
mdfVars == <<mdfInput, mdfWritten, mdfOpened>>
vars == <<build, pc, valueVars, treeVars, fileVars, mdfVars>>

Nil == "nil"

(***************************************************************************)
(* Opcodes.                                                                *)
(***************************************************************************)
PSB_TYPE_NONE == 0
PSB_TYPE_NULL == 1
PSB_TYPE_FALSE == 2
PSB_TYPE_TRUE == 3
PSB_TYPE_INTEGER_N == 4
PSB_TYPE_FLOAT0 == 29
PSB_TYPE_FLOAT == 30
PSB_TYPE_DOUBLE == 31
PSB_TYPE_INTEGER_ARRAY_N == 12
PSB_TYPE_STRING_N == 20
PSB_TYPE_RESOURCE_N == 24
PSB_TYPE_LIST == 32
PSB_TYPE_OBJECT == 33
PSB_TYPE_EXTRA_N == 33
PSB_COMPILER_INTEGER == 128
PSB_COMPILER_STRING == 129
PSB_COMPILER_RESOURCE == 130
PSB_COMPILER_DECIMAL == 131
PSB_COMPILER_ARRAY == 132
PSB_COMPILER_BOOL == 133
PSB_COMPILER_BINARY_TREE == 134

(***************************************************************************)
(* u64 / i64 arithmetic on 8-byte little-endian tuples.                    *)
(***************************************************************************)
Byte == 0..255

Zero64 == <<0, 0, 0, 0, 0, 0, 0, 0>>
One64 == <<1, 0, 0, 0, 0, 0, 0, 0>>
I64Min == <<0, 0, 0, 0, 0, 0, 0, 128>>

\* n as u64, for a natural n below 2^31
FromNat(n) ==
    <<n % 256, (n \div 256) % 256, (n \div 65536) % 256,
      (n \div 16777216) % 256, 0, 0, 0, 0>>

\* "as usize" of a u64 that is then used as an index, a count or a seek
\* offset: values from 2^24 up are all beyond every array and stream of the
\* model and are mapped to Huge.
Huge == 256 * 256 * 256
ToNat(t) ==
    IF \E i \in 4..8 : t[i] # 0 THEN Huge
    ELSE t[1] + 256 * t[2] + 65536 * t[3]

\* a function on 1..8 as the tuple it is
Tup8(f) == <<f[1], f[2], f[3], f[4], f[5], f[6], f[7], f[8]>>

RECURSIVE AddCarry(_, _, _, _)
AddCarry(a, b, i, c) ==
    IF i > 8 THEN <<>>
    ELSE LET s == a[i] + b[i] + c
         IN  <<s % 256>> \o AddCarry(a, b, i + 1, s \div 256)

WrappingAdd(a, b) == AddCarry(a, b, 1, 0)
Not64(a) == Tup8([i \in 1..8 |-> 255 - a[i]])
WrappingNeg(a) == WrappingAdd(Not64(a), One64)
WrappingSub(a, b) == WrappingAdd(a, WrappingNeg(b))

\* unsigned a < b
ULt(a, b) == \E i \in 1..8 : a[i] < b[i] /\ \A j \in (i + 1)..8 : a[j] = b[j]
UGe(a, b) == ~ULt(a, b)
IsNeg(a) == a[8] >= 128
\* signed a <= b
SLe(a, b) ==
    IF IsNeg(a) # IsNeg(b) THEN IsNeg(a) ELSE (a = b \/ ULt(a, b))

\* 1_u64 << bits, bits a multiple of 8 below 64
ShlOne(bits) == Tup8([i \in 1..8 |-> IF i = (bits \div 8) + 1 THEN 1 ELSE 0])
\* a >> 1
Shr1(a) ==
    Tup8([i \in 1..8 |->
            (a[i] \div 2) + (IF i < 8 THEN (a[i + 1] % 2) * 128 ELSE 0)])

\* 0x7f, 0x7fff, ... : the largest positive value of n bytes in two's complement
MaxSigned(n) ==
    Tup8([i \in 1..8 |-> IF i < n THEN 255 ELSE IF i = n THEN 127 ELSE 0])
\* 0xff, 0xffff, ... : the largest unsigned value of n bytes
MaxUnsigned(n) == Tup8([i \in 1..8 |-> IF i <= n THEN 255 ELSE 0])

(***************************************************************************)
(* Results.  A read returns (read size, value) and leaves the stream at    *)
(* pos; a write returns the written size and appends bytes to the stream.  *)
(***************************************************************************)
ReadOk(read, val, pos) == [err |-> "none", read |-> read, val |-> val, pos |-> pos]
ReadErr(kind) == [err |-> kind, read |-> 0, val |-> Nil, pos |-> 0]
WriteOk(ret, bytes) == [err |-> "none", ret |-> ret, bytes |-> bytes]
WriteErr(kind) == [err |-> kind, ret |-> 0, bytes |-> <<>>]

\* stream.read_u8(): the byte at pos, or an Io error at the end of the stream
ReadU8(s, pos) ==
    IF pos < Len(s) THEN ReadOk(1, s[pos + 1], pos + 1) ELSE ReadErr("Io")

\* stream.read_exact(buf[..n])
ReadExact(s, pos, n) ==
    IF pos + n <= Len(s) THEN ReadOk(n, SubSeq(s, pos + 1, pos + n), pos + n)
    ELSE ReadErr("Io")

(***************************************************************************)
(* PsbNumber                                                               *)
(***************************************************************************)
\* PsbNumber::read_uint
PsbNumber_read_uint(number_size, s, pos) ==
    IF number_size = 0 THEN ReadOk(1, Zero64, pos)
    ELSE IF number_size <= 8 THEN
        LET from_le_bytes(r) ==
                IF r.err # "none" THEN r
                ELSE ReadOk(number_size,
                            Tup8([i \in 1..8 |->
                                    IF i <= number_size THEN r.val[i] ELSE 0]),
                            r.pos)
        IN  from_le_bytes(ReadExact(s, pos, number_size))
    ELSE ReadErr("InvalidPSBValue")

\* PsbNumber::read_integer
PsbNumber_read_integer(number_size, s, pos) ==
    IF number_size = 0 THEN ReadOk(1, Zero64, pos)
    ELSE IF number_size <= 8 THEN
        LET max == ShlOne((number_size * 8) % 64)
            number(unsigned) ==
                IF UGe(unsigned, Shr1(max))
                THEN WrappingNeg(WrappingSub(max, unsigned))
                ELSE unsigned
            signed(r) ==
                IF r.err # "none" THEN r
                ELSE IF number_size * 8 >= 64 /\ build = "debug"
                THEN ReadErr("panic")  \* attempt to shift left with overflow
                ELSE ReadOk(r.read, number(r.val), r.pos)
        IN  signed(PsbNumber_read_uint(number_size, s, pos))
    ELSE ReadErr("InvalidPSBValue")

\* PsbNumber::get_n panics when its negation overflows in a debug build
PsbNumber_get_n_panics(number0) ==
    IsNeg(number0) /\ number0 = I64Min /\ build = "debug"

\* PsbNumber::get_n (where it does not panic)
PsbNumber_get_n(number0) ==
      LET smallest(number) ==
              IF \E n \in 1..7 : SLe(number, MaxSigned(n))
              THEN CHOOSE n \in 1..7 :
                      SLe(number, MaxSigned(n)) /\ \A m \in 1..(n - 1) : ~SLe(number, MaxSigned(m))
              ELSE 8
      IN  smallest(IF IsNeg(number0) THEN WrappingNeg(number0) ELSE number0)

\* PsbNumber::get_uint_n
PsbNumber_get_uint_n(number) ==
    IF \E n \in 1..7 : ~ULt(MaxUnsigned(n), number)
    THEN CHOOSE n \in 1..7 :
            ~ULt(MaxUnsigned(n), number) /\ \A m \in 1..(n - 1) : ULt(MaxUnsigned(m), number)
    ELSE 8

\* PsbNumber::write_uint: the n low bytes of number
PsbNumber_write_uint(n, number) ==
    IF n > 0 THEN WriteOk(n, SubSeq(number, 1, n)) ELSE WriteOk(0, <<>>)

\* PsbNumber::write_integer: number as u64
PsbNumber_write_integer(n, number) == PsbNumber_write_uint(n, number)

\* f32 and f64 are their bit patterns, little-endian (4 and 8 bytes)
F32Zero == <<0, 0, 0, 0>>
IsZeroF32(b) == b[1] = 0 /\ b[2] = 0 /\ b[3] = 0 /\ b[4] % 128 = 0
IsNaNF32(b) ==
    /\ b[4] % 128 = 127 /\ b[3] >= 128
    /\ (b[3] % 128 # 0 \/ b[2] # 0 \/ b[1] # 0)
IsZeroF64(b) == (\A i \in 1..7 : b[i] = 0) /\ b[8] % 128 = 0
IsNaNF64(b) ==
    /\ b[8] % 128 = 127 /\ b[7] >= 240
    /\ (b[7] % 16 # 0 \/ \E i \in 1..6 : b[i] # 0)
\* PartialEq of f32 / f64
F32Eq(a, b) == ~IsNaNF32(a) /\ ~IsNaNF32(b) /\ (a = b \/ (IsZeroF32(a) /\ IsZeroF32(b)))
F64Eq(a, b) == ~IsNaNF64(a) /\ ~IsNaNF64(b) /\ (a = b \/ (IsZeroF64(a) /\ IsZeroF64(b)))

\* enum PsbNumber
Integer(v) == [k |-> "Integer", v |-> v]
Double(v) == [k |-> "Double", v |-> v]
Float(v) == [k |-> "Float", v |-> v]

\* PsbNumber::from_bytes
PsbNumber_from_bytes(number_type, s, pos) ==
    LET double(r) == IF r.err # "none" THEN r ELSE ReadOk(8, Double(r.val), r.pos)
        float(r) == IF r.err # "none" THEN r ELSE ReadOk(4, Float(r.val), r.pos)
        integer(r) == IF r.err # "none" THEN r ELSE ReadOk(r.read, Integer(r.val), r.pos)
    IN
    IF number_type = PSB_TYPE_DOUBLE THEN double(ReadExact(s, pos, 8))
    ELSE IF number_type = PSB_TYPE_FLOAT THEN float(ReadExact(s, pos, 4))
    ELSE IF number_type = PSB_TYPE_FLOAT0 THEN ReadOk(0, Float(F32Zero), pos)
    ELSE IF number_type >= PSB_TYPE_INTEGER_N /\ number_type <= PSB_TYPE_INTEGER_N + 8
    THEN integer(PsbNumber_read_integer(number_type - PSB_TYPE_INTEGER_N, s, pos))
    ELSE ReadErr("InvalidPSBValue")

\* PsbNumber::write_bytes
PsbNumber_write_bytes(self) ==
    IF self.k = "Integer" THEN
        IF self.v = Zero64 THEN WriteOk(0, <<>>)
        ELSE IF PsbNumber_get_n_panics(self.v) THEN WriteErr("panic")
        ELSE PsbNumber_write_integer(PsbNumber_get_n(self.v), self.v)
    ELSE IF self.k = "Double" THEN WriteOk(8, self.v)
    ELSE IF IsZeroF32(self.v) THEN WriteOk(0, <<>>)
         ELSE WriteOk(4, self.v)

(***************************************************************************)
(* PsbUintArray: a Vec<u64>                                                *)
(***************************************************************************)
MaxItems == 6   \* longest array a decode builds when its items have no bytes

\* vec.iter().max() of a vec that is not empty
UMax(vec) ==
    vec[CHOOSE i \in 1..Len(vec) : \A j \in 1..Len(vec) : ~ULt(vec[i], vec[j])]

\* u8 - u8: panics in a debug build when it underflows, wraps otherwise
SubU8Panics(a, b) == a < b /\ build = "debug"
SubU8(a, b) == IF a >= b THEN a - b ELSE a - b + 256

\* get_item_n that takes the width of the last item
PsbUintArray_get_item_n_last(vec) == PsbNumber_get_uint_n(vec[Len(vec)])

\* PsbUintArray::get_item_n
PsbUintArray_get_item_n(vec) == PsbNumber_get_uint_n(UMax(vec))

\* PsbUintArray::get_n
PsbUintArray_get_n(vec) ==
    LET at_least_1(n) == IF n >= 1 THEN n ELSE 1
    IN  at_least_1(PsbNumber_get_uint_n(FromNat(Len(vec))))

\* the loop of PsbUintArray::from_bytes: item_count times read_uint, the
\* first error ending it
ReadItems(item_count, item_byte_size, s, pos) ==
    LET item(i) == PsbNumber_read_uint(item_byte_size, s, pos + (i - 1) * item_byte_size)
        \* a size of 0 reads nothing and counts 1 for each item
        item_read == IF item_byte_size = 0 THEN 1 ELSE item_byte_size
    IN  IF item_count = 0 THEN ReadOk(0, <<>>, pos)
        ELSE IF item_byte_size > 8 THEN ReadErr("InvalidPSBValue")
        ELSE IF pos + item_count * item_byte_size > Len(s) THEN ReadErr("Io")
        ELSE ReadOk(item_count * item_read,
                    [i \in 1..item_count |-> item(i).val],
                    pos + item_count * item_byte_size)

\* PsbUintArray::from_bytes
PsbUintArray_from_bytes(n, s, pos) ==
    LET list(c, items) ==
            IF items.err # "none" THEN items
            ELSE ReadOk(c.read + items.read + 1, items.val, items.pos)
        sized(c, b, item_count, item_byte_size) ==
            IF SubU8Panics(b.val, PSB_TYPE_INTEGER_ARRAY_N) THEN ReadErr("panic")
            ELSE IF item_byte_size = 0 /\ item_count > MaxItems
            THEN ReadErr("abort")  \* the Vec outgrows the memory
            ELSE list(c, ReadItems(item_count, item_byte_size, s, b.pos))
        typed(c, b) ==
            IF b.err # "none" THEN b
            ELSE sized(c, b, ToNat(c.val), SubU8(b.val, PSB_TYPE_INTEGER_ARRAY_N))
        counted(c) == IF c.err # "none" THEN c ELSE typed(c, ReadU8(s, c.pos))
    IN  counted(PsbNumber_read_uint(n, s, pos))

\* the loop of PsbUintArray::write_bytes: every item in n bytes
WriteItems(n, vec) ==
    [k \in 1..(n * Len(vec)) |->
        PsbNumber_write_uint(n, vec[((k - 1) \div n) + 1]).bytes[((k - 1) % n) + 1]]

\* write_bytes that leaves the count of an empty array out
PsbUintArray_write_bytes_no_count(vec) ==
    LET len == Len(vec)
        items(count, n) ==
            WriteOk(1 + count.ret + n * len,
                    count.bytes \o <<n + PSB_TYPE_INTEGER_ARRAY_N>> \o WriteItems(n, vec))
        counted(count) ==
            IF len < 1 THEN WriteOk(1, <<PSB_TYPE_INTEGER_ARRAY_N + 1>>)
            ELSE items(count, PsbUintArray_get_item_n(vec))
    IN  counted(PsbNumber_write_uint(PsbUintArray_get_n(vec), FromNat(len)))

\* PsbUintArray::write_bytes
PsbUintArray_write_bytes(vec) ==
    LET len == Len(vec)
        items(count, n) ==
            WriteOk(1 + count.ret + n * len,
                    count.bytes \o <<n + PSB_TYPE_INTEGER_ARRAY_N>> \o WriteItems(n, vec))
        counted(count) ==
            IF len < 1
            THEN WriteOk(1 + count.ret, count.bytes \o <<PSB_TYPE_INTEGER_ARRAY_N + 1>>)
            ELSE items(count, PsbUintArray_get_item_n(vec))
    IN  counted(PsbNumber_write_uint(PsbUintArray_get_n(vec), FromNat(len)))

(***************************************************************************)
(* Handles: PsbStringRef, PsbResourceRef, PsbExtraRef (one u64 index each) *)
(***************************************************************************)
\* get_n that answers 0 for the handle 0
PsbReference_get_n_zero(ref) == IF ref = Zero64 THEN 0 ELSE PsbNumber_get_uint_n(ref)

\* get_n
PsbReference_get_n(ref) == PsbNumber_get_uint_n(ref)

\* from_bytes
PsbReference_from_bytes(n, s, pos) == PsbNumber_read_uint(n, s, pos)

\* write_bytes
PsbReference_write_bytes(ref) == PsbNumber_write_uint(PsbReference_get_n(ref), ref)

(***************************************************************************)
(* PsbRefs: the names and the strings of a file, in table order            *)
(***************************************************************************)
PsbRefs(names, strings) == [names |-> names, strings |-> strings]

\* Option<u64>: None
NoIndex == 0 - 1

\* position of x in vec, counted from 0, or None
IndexOf(vec, x) ==
    IF \E i \in 1..Len(vec) : vec[i] = x
    THEN (CHOOSE i \in 1..Len(vec) : vec[i] = x /\ \A j \in 1..(i - 1) : vec[j] # x) - 1
    ELSE NoIndex

find_name_index(table, name) == IndexOf(table.names, name)
find_string_index(table, string) == IndexOf(table.strings, string)

\* lexicographic order of byte strings (Ord of String and of Vec<u8>)
StrLt(a, b) ==
    \/ Len(a) < Len(b) /\ SubSeq(b, 1, Len(a)) = a
    \/ \E i \in 1..(IF Len(a) < Len(b) THEN Len(a) ELSE Len(b)) :
          a[i] < b[i] /\ SubSeq(a, 1, i - 1) = SubSeq(b, 1, i - 1)

\* the elements of a set of byte strings in ascending order
RECURSIVE Sorted(_)
Sorted(set) ==
    IF set = {} THEN <<>>
    ELSE LET m == CHOOSE x \in set : \A y \in set : y = x \/ StrLt(x, y)
         IN  <<m>> \o Sorted(set \ {m})

(***************************************************************************)
(* PsbValue                                                                *)
(***************************************************************************)
None == [t |-> "None"]
Null == [t |-> "Null"]
Bool(b) == [t |-> "Bool", v |-> b]
Number(n) == [t |-> "Number", v |-> n]
IntArray(vec) == [t |-> "IntArray", v |-> vec]
String(string) == [t |-> "String", v |-> string]
StringRef(ref) == [t |-> "StringRef", v |-> ref]
List(values) == [t |-> "List", v |-> values]
Object(map) == [t |-> "Object", v |-> map]
Resource(ref) == [t |-> "Resource", v |-> ref]
ExtraResource(ref) == [t |-> "ExtraResource", v |-> ref]
CompilerNumber == [t |-> "CompilerNumber"]
CompilerString == [t |-> "CompilerString"]
CompilerResource == [t |-> "CompilerResource"]
CompilerDecimal == [t |-> "CompilerDecimal"]
CompilerArray == [t |-> "CompilerArray"]
CompilerBool == [t |-> "CompilerBool"]
CompilerBinaryTree == [t |-> "CompilerBinaryTree"]

\* a write of one opcode byte followed by what w wrote
WithOpcode(opcode, w) ==
    IF w.err # "none" THEN w ELSE WriteOk(1 + w.ret, <<opcode>> \o w.bytes)

\* PsbValue::write_bytes
PsbValue_write_bytes(self) ==
    CASE self.t = "None" -> WriteOk(1, <<PSB_TYPE_NONE>>)
      [] self.t = "Null" -> WriteOk(1, <<PSB_TYPE_NULL>>)
      [] self.t = "Bool" ->
            WriteOk(1, IF self.v THEN <<PSB_TYPE_TRUE>> ELSE <<PSB_TYPE_FALSE>>)
      [] self.t = "Number" ->
            IF self.v.k = "Integer" /\ PsbNumber_get_n_panics(self.v.v)
            THEN WriteErr("panic")
            ELSE WithOpcode(IF self.v.k = "Integer"
                            THEN PSB_TYPE_INTEGER_N + PsbNumber_get_n(self.v.v)
                            ELSE IF self.v.k = "Double" THEN PSB_TYPE_DOUBLE
                            ELSE IF IsZeroF32(self.v.v) THEN PSB_TYPE_FLOAT0
                            ELSE PSB_TYPE_FLOAT,
                            PsbNumber_write_bytes(self.v))
      [] self.t = "IntArray" ->
            WithOpcode(PSB_TYPE_INTEGER_ARRAY_N + PsbUintArray_get_n(self.v),
                       PsbUintArray_write_bytes(self.v))
      [] self.t \in {"StringRef", "Resource", "ExtraResource"} ->
            WithOpcode((IF self.t = "StringRef" THEN PSB_TYPE_STRING_N
                        ELSE IF self.t = "Resource" THEN PSB_TYPE_RESOURCE_N
                        ELSE PSB_TYPE_EXTRA_N) + PsbReference_get_n(self.v),
                       PsbReference_write_bytes(self.v))
      [] self.t = "CompilerNumber" -> WriteOk(1, <<PSB_COMPILER_INTEGER>>)
      [] self.t = "CompilerString" -> WriteOk(1, <<PSB_COMPILER_STRING>>)
      [] self.t = "CompilerResource" -> WriteOk(1, <<PSB_COMPILER_RESOURCE>>)
      [] self.t = "CompilerDecimal" -> WriteOk(1, <<PSB_COMPILER_DECIMAL>>)
      [] self.t = "CompilerArray" -> WriteOk(1, <<PSB_COMPILER_ARRAY>>)
      [] self.t = "CompilerBool" -> WriteOk(1, <<PSB_COMPILER_BOOL>>)
      [] self.t = "CompilerBinaryTree" -> WriteOk(1, <<PSB_COMPILER_BINARY_TREE>>)
      [] OTHER -> WriteErr("InvalidPSBValue")

\* PsbString::write_bytes
PsbString_write_bytes(string, ref_table) ==
    LET handle(ref_index) ==
            IF ref_index = NoIndex THEN WriteErr("InvalidOffsetTable")
            ELSE PsbReference_write_bytes(FromNat(ref_index))
    IN  handle(find_string_index(ref_table, string))

RECURSIVE PsbValue_write_bytes_refs(_, _)

\* the loop of PsbList::write_bytes and of PsbObject::write_bytes: the
\* children written to data_buffer, each offset the sum of the sizes returned
\* by the writes before it
RECURSIVE WriteChildren(_, _, _)
WriteChildren(values, table, total_data_written) ==
    IF values = <<>>
    THEN [err |-> "none", offsets |-> <<>>, data |-> <<>>, total |-> total_data_written]
    ELSE LET pushed(w, rest) ==
                 IF rest.err # "none" THEN rest
                 ELSE [err |-> "none",
                       offsets |-> <<FromNat(total_data_written)>> \o rest.offsets,
                       data |-> w.bytes \o rest.data,
                       total |-> rest.total]
             child(w) ==
                 IF w.err # "none"
                 THEN [err |-> w.err, offsets |-> <<>>, data |-> <<>>, total |-> 0]
                 ELSE pushed(w, WriteChildren(Tail(values), table,
                                              total_data_written + w.ret))
         IN  child(PsbValue_write_bytes_refs(Head(values), table))

\* PsbList::write_bytes
PsbList_write_bytes(values, table) ==
    LET framed(c, offset_written) ==
            WriteOk(offset_written.ret + c.total, offset_written.bytes \o c.data)
        children(c) ==
            IF c.err # "none" THEN WriteErr(c.err)
            ELSE framed(c, PsbValue_write_bytes(IntArray(c.offsets)))
    IN  children(WriteChildren(values, table, 0))

\* write_bytes that takes the keys as the map yields them, here from the
\* greatest down
PsbObject_write_bytes_unsorted(map, ref_table) ==
    LET framed(c, names_written, offset_written) ==
            WriteOk(names_written.ret + offset_written.ret + c.total,
                    names_written.bytes \o offset_written.bytes \o c.data)
        children(name_refs, c) ==
            IF c.err # "none" THEN WriteErr(c.err)
            ELSE framed(c,
                        PsbValue_write_bytes(
                            IntArray([i \in 1..Len(name_refs) |-> FromNat(name_refs[i])])),
                        PsbValue_write_bytes(IntArray(c.offsets)))
        named(keys, name_refs) ==
            IF \E i \in 1..Len(keys) : name_refs[i] = NoIndex
            THEN WriteErr("InvalidOffsetTable")
            ELSE children(name_refs,
                          WriteChildren([i \in 1..Len(keys) |-> map[keys[i]]], ref_table, 0))
        yielded(keys) ==
            named(keys, [i \in 1..Len(keys) |-> find_name_index(ref_table, keys[i])])
        down(keys) == [i \in 1..Len(keys) |-> keys[Len(keys) + 1 - i]]
    IN  yielded(down(Sorted(DOMAIN map)))

\* PsbObject::write_bytes: the keys in sorted order
PsbObject_write_bytes(map, ref_table) ==
    LET framed(c, names_written, offset_written) ==
            WriteOk(names_written.ret + offset_written.ret + c.total,
                    names_written.bytes \o offset_written.bytes \o c.data)
        children(name_refs, c) ==
            IF c.err # "none" THEN WriteErr(c.err)
            ELSE framed(c,
                        PsbValue_write_bytes(
                            IntArray([i \in 1..Len(name_refs) |-> FromNat(name_refs[i])])),
                        PsbValue_write_bytes(IntArray(c.offsets)))
        named(keys, name_refs) ==
            IF \E i \in 1..Len(keys) : name_refs[i] = NoIndex
            THEN WriteErr("InvalidOffsetTable")
            ELSE children(name_refs,
                          WriteChildren([i \in 1..Len(keys) |-> map[keys[i]]], ref_table, 0))
        sorted(keys) ==
            named(keys, [i \in 1..Len(keys) |-> find_name_index(ref_table, keys[i])])
    IN  sorted(Sorted(DOMAIN map))

\* PsbValue::write_bytes_refs
PsbValue_write_bytes_refs(self, table) ==
    CASE self.t = "String" ->
            LET at_least_1(n) == IF n >= 1 THEN n ELSE 1
                string(ref_index) ==
                    IF ref_index = NoIndex THEN WriteErr("InvalidOffsetTable")
                    ELSE WithOpcode(PSB_TYPE_STRING_N
                                        + at_least_1(PsbNumber_get_uint_n(FromNat(ref_index))),
                                    PsbString_write_bytes(self.v, table))
            IN  string(find_string_index(table, self.v))
      [] self.t = "List" -> WithOpcode(PSB_TYPE_LIST, PsbList_write_bytes(self.v, table))
      [] self.t = "Object" ->
            WithOpcode(PSB_TYPE_OBJECT, PsbObject_write_bytes(self.v, table))
      [] OTHER -> PsbValue_write_bytes(self)

\* from_bytes_type whose extra-resource arm has no upper end
PsbValue_from_bytes_type_open(value_type, s, pos) ==
    LET is_float == value_type \in {PSB_TYPE_DOUBLE, PSB_TYPE_FLOAT0, PSB_TYPE_FLOAT}
        is_string == value_type > PSB_TYPE_STRING_N /\ value_type <= PSB_TYPE_STRING_N + 4
        is_integer == value_type >= PSB_TYPE_INTEGER_N
                        /\ value_type <= PSB_TYPE_INTEGER_N + 8
        is_array == value_type > PSB_TYPE_INTEGER_ARRAY_N
                        /\ value_type <= PSB_TYPE_INTEGER_ARRAY_N + 8
        is_resource == value_type > PSB_TYPE_RESOURCE_N
                        /\ value_type <= PSB_TYPE_RESOURCE_N + 4
        is_extra == value_type > PSB_TYPE_EXTRA_N
        \* the arms in the order of the match: the first that applies wins
        arm == CASE is_float -> "Number"
                 [] is_string -> "StringRef"
                 [] is_integer -> "Number"
                 [] is_array -> "IntArray"
                 [] is_resource -> "Resource"
                 [] is_extra -> "ExtraResource"
                 [] OTHER -> "none"
        base == CASE arm = "StringRef" -> PSB_TYPE_STRING_N
                  [] arm = "Resource" -> PSB_TYPE_RESOURCE_N
                  [] OTHER -> PSB_TYPE_EXTRA_N
        tagged(r) ==
            IF r.err # "none" THEN r
            ELSE ReadOk(r.read + 1, [t |-> arm, v |-> r.val], r.pos)
    IN
    CASE value_type = PSB_TYPE_NONE -> ReadOk(1, None, pos)
      [] value_type = PSB_TYPE_NULL -> ReadOk(1, Null, pos)
      [] value_type = PSB_TYPE_FALSE -> ReadOk(1, Bool(FALSE), pos)
      [] value_type = PSB_TYPE_TRUE -> ReadOk(1, Bool(TRUE), pos)
      [] arm = "Number" -> tagged(PsbNumber_from_bytes(value_type, s, pos))
      [] arm = "IntArray" ->
            tagged(PsbUintArray_from_bytes(value_type - PSB_TYPE_INTEGER_ARRAY_N, s, pos))
      [] arm \in {"StringRef", "Resource", "ExtraResource"} ->
            tagged(PsbReference_from_bytes(value_type - base, s, pos))
      [] value_type = PSB_COMPILER_INTEGER -> ReadOk(1, CompilerNumber, pos)
      [] value_type = PSB_COMPILER_STRING -> ReadOk(1, CompilerString, pos)
      [] value_type = PSB_COMPILER_RESOURCE -> ReadOk(1, CompilerResource, pos)
      [] value_type = PSB_COMPILER_ARRAY -> ReadOk(1, CompilerArray, pos)
      [] value_type = PSB_COMPILER_BOOL -> ReadOk(1, CompilerBool, pos)
      [] value_type = PSB_COMPILER_BINARY_TREE -> ReadOk(1, CompilerBinaryTree, pos)
      [] OTHER -> ReadErr("InvalidPSBValue")

\* PsbValue::from_bytes_type
PsbValue_from_bytes_type(value_type, s, pos) ==
    LET is_float == value_type \in {PSB_TYPE_DOUBLE, PSB_TYPE_FLOAT0, PSB_TYPE_FLOAT}
        is_string == value_type > PSB_TYPE_STRING_N /\ value_type <= PSB_TYPE_STRING_N + 4
        is_integer == value_type >= PSB_TYPE_INTEGER_N
                        /\ value_type <= PSB_TYPE_INTEGER_N + 8
        is_array == value_type > PSB_TYPE_INTEGER_ARRAY_N
                        /\ value_type <= PSB_TYPE_INTEGER_ARRAY_N + 8
        is_resource == value_type > PSB_TYPE_RESOURCE_N
                        /\ value_type <= PSB_TYPE_RESOURCE_N + 4
        is_extra == value_type > PSB_TYPE_EXTRA_N /\ value_type <= PSB_TYPE_EXTRA_N + 4
        \* the arms in the order of the match: the first that applies wins
        arm == CASE is_float -> "Number"
                 [] is_string -> "StringRef"
                 [] is_integer -> "Number"
                 [] is_array -> "IntArray"
                 [] is_resource -> "Resource"
                 [] is_extra -> "ExtraResource"
                 [] OTHER -> "none"
        base == CASE arm = "StringRef" -> PSB_TYPE_STRING_N
                  [] arm = "Resource" -> PSB_TYPE_RESOURCE_N
                  [] OTHER -> PSB_TYPE_EXTRA_N
        tagged(r) ==
            IF r.err # "none" THEN r
            ELSE ReadOk(r.read + 1, [t |-> arm, v |-> r.val], r.pos)
    IN
    CASE value_type = PSB_TYPE_NONE -> ReadOk(1, None, pos)
      [] value_type = PSB_TYPE_NULL -> ReadOk(1, Null, pos)
      [] value_type = PSB_TYPE_FALSE -> ReadOk(1, Bool(FALSE), pos)
      [] value_type = PSB_TYPE_TRUE -> ReadOk(1, Bool(TRUE), pos)
      [] arm = "Number" -> tagged(PsbNumber_from_bytes(value_type, s, pos))
      [] arm = "IntArray" ->
            tagged(PsbUintArray_from_bytes(value_type - PSB_TYPE_INTEGER_ARRAY_N, s, pos))
      [] arm \in {"StringRef", "Resource", "ExtraResource"} ->
            tagged(PsbReference_from_bytes(value_type - base, s, pos))
      [] value_type = PSB_COMPILER_INTEGER -> ReadOk(1, CompilerNumber, pos)
      [] value_type = PSB_COMPILER_STRING -> ReadOk(1, CompilerString, pos)
      [] value_type = PSB_COMPILER_RESOURCE -> ReadOk(1, CompilerResource, pos)
      [] value_type = PSB_COMPILER_ARRAY -> ReadOk(1, CompilerArray, pos)
      [] value_type = PSB_COMPILER_BOOL -> ReadOk(1, CompilerBool, pos)
      [] value_type = PSB_COMPILER_BINARY_TREE -> ReadOk(1, CompilerBinaryTree, pos)
      [] OTHER -> ReadErr("InvalidPSBValue")

\* PsbValue::from_bytes
PsbValue_from_bytes(s, pos) ==
    LET typed(b) == IF b.err # "none" THEN b ELSE PsbValue_from_bytes_type(b.val, s, b.pos)
    IN  typed(ReadU8(s, pos))

\* match PsbValue::from_bytes(stream)? { (read, IntArray(array)) => ..,
\*                                       _ => Err(InvalidOffsetTable) }
ReadIntArray(s, pos) ==
    LET array(r) == IF r.err # "none" THEN r
                    ELSE IF r.val.t # "IntArray" THEN ReadErr("InvalidOffsetTable")
                    ELSE ReadOk(r.read, r.val.v, r.pos)
    IN  array(PsbValue_from_bytes(s, pos))

MaxDepth == 4   \* nesting of containers a decode follows before the stack ends

RECURSIVE PsbValue_from_bytes_refs(_, _, _, _)

\* the loop of PsbList::from_bytes and of PsbObject::from_bytes over the
\* offsets from the i-th on; keyed is TRUE for an object, whose name_refs
\* are keys
RECURSIVE ReadChildren(_, _, _, _, _, _, _, _, _, _)
ReadChildren(ref_offsets, keyed, keys, i, start, max_offset, total_read, s, table, depth) ==
    IF i > Len(ref_offsets) \/ (keyed /\ i > Len(keys))
    THEN [err |-> "none", vals |-> <<>>, total |-> total_read]
    ELSE
      LET pushed(r, rest) ==
              IF rest.err # "none" THEN rest
              ELSE [err |-> "none", vals |-> <<r.val>> \o rest.vals, total |-> rest.total]
          child(offset, r) ==
              IF r.err # "none" THEN [err |-> r.err, vals |-> <<>>, total |-> 0]
              ELSE IF keyed /\ ToNat(keys[i]) >= Len(table.names)
              THEN [err |-> "InvalidOffsetTable", vals |-> <<>>, total |-> 0]
              ELSE pushed(r, ReadChildren(ref_offsets, keyed, keys, i + 1, start,
                                          max_offset,
                                          IF max_offset = offset
                                          THEN r.read + ToNat(offset) ELSE total_read,
                                          s, table, depth))
          at(offset) ==
              child(offset, PsbValue_from_bytes_refs(s, start + ToNat(offset), table, depth))
      IN  at(ref_offsets[i])

\* PsbList::from_bytes
PsbList_from_bytes(s, pos, table, depth) ==
    LET values(o, c) == IF c.err # "none" THEN ReadErr(c.err)
                        ELSE ReadOk(o.read + c.total, c.vals, o.pos + c.total)
        offsets(o) ==
            IF o.err # "none" THEN o
            ELSE IF Len(o.val) < 1 THEN ReadOk(o.read, <<>>, o.pos)
            ELSE values(o, ReadChildren(o.val, FALSE, <<>>, 1, o.pos, UMax(o.val), 0, s,
                                        table, depth))
    IN  offsets(ReadIntArray(s, pos))

\* PsbObject::from_bytes
PsbObject_from_bytes(s, pos, table, depth) ==
    LET map(n, o, c) ==
            LET key(i) == table.names[ToNat(n.val[i]) + 1]
                last(k) == CHOOSE i \in 1..Len(c.vals) :
                              key(i) = k /\ \A j \in (i + 1)..Len(c.vals) : key(j) # k
            IN  IF c.err # "none" THEN ReadErr(c.err)
                ELSE ReadOk(n.read + o.read + c.total,
                            [k \in {key(i) : i \in 1..Len(c.vals)} |-> c.vals[last(k)]],
                            o.pos + c.total)
        offsets(n, o) ==
            IF o.err # "none" THEN o
            ELSE IF Len(n.val) < 1 THEN ReadOk(n.read + o.read, <<>>, o.pos)
            ELSE IF Len(o.val) < 1 THEN ReadErr("panic")  \* max().unwrap() of None
            ELSE map(n, o, ReadChildren(o.val, TRUE, n.val, 1, o.pos, UMax(o.val), 0, s,
                                        table, depth))
        names(n) == IF n.err # "none" THEN n ELSE offsets(n, ReadIntArray(s, n.pos))
    IN  names(ReadIntArray(s, pos))

\* PsbValue::from_bytes_refs
PsbValue_from_bytes_refs(s, pos, table, depth) ==
    LET list(r) == IF r.err # "none" THEN r ELSE ReadOk(r.read + 1, List(r.val), r.pos)
        object(r) == IF r.err # "none" THEN r ELSE ReadOk(r.read + 1, Object(r.val), r.pos)
        typed(b) ==
            IF b.err # "none" THEN b
            ELSE IF b.val \in {PSB_TYPE_LIST, PSB_TYPE_OBJECT} /\ depth >= MaxDepth
            THEN ReadErr("abort")
            ELSE IF b.val = PSB_TYPE_LIST
            THEN list(PsbList_from_bytes(s, b.pos, table, depth + 1))
            ELSE IF b.val = PSB_TYPE_OBJECT
            THEN object(PsbObject_from_bytes(s, b.pos, table, depth + 1))
            ELSE PsbValue_from_bytes_type(b.val, s, b.pos)
    IN  typed(ReadU8(s, pos))

\* PartialEq of PsbValue
RECURSIVE ValueEq(_, _)
ValueEq(a, b) ==
    IF a.t # b.t THEN FALSE
    ELSE CASE a.t = "Number" ->
                /\ a.v.k = b.v.k
                /\ CASE a.v.k = "Float" -> F32Eq(a.v.v, b.v.v)
                     [] a.v.k = "Double" -> F64Eq(a.v.v, b.v.v)
                     [] OTHER -> a.v.v = b.v.v
           [] a.t = "List" ->
                /\ Len(a.v) = Len(b.v)
                /\ \A i \in 1..Len(a.v) : ValueEq(a.v[i], b.v[i])
           [] a.t = "Object" ->
                /\ DOMAIN a.v = DOMAIN b.v
                /\ \A k \in DOMAIN a.v : ValueEq(a.v[k], b.v[k])
           [] OTHER -> a = b

(***************************************************************************)
(* SafeIndexVec<u64>: a Vec that grows with zeroes when set past its end   *)
(***************************************************************************)
\* SafeIndexVec::set
SafeIndexVec_set(vec, index, val) ==
    LET grown == IF Len(vec) <= index
                 THEN vec \o [k \in 1..(index + 1 - Len(vec)) |-> 0]
                 ELSE vec
    IN  [grown EXCEPT ![index + 1] = val]

(***************************************************************************)
(* PsbBinaryTree: the name trie.  A TreeNode is named by the bytes on the  *)
(* path from the root to it; the tree is the set of its nodes, and the id  *)
(* and begin_pos of the nodes are kept beside the arrays being built.      *)
(* Ids, positions and array items are naturals here and u64 on the wire.   *)
(***************************************************************************)
Prefixes(data) == {SubSeq(data, 1, k) : k \in 0..Len(data)}

\* PsbBinaryTree::build_tree: every name's path, ended by a child 0
PsbBinaryTree_build_tree(list) ==
    {<<>>} \cup UNION {Prefixes(list[i]) \cup {Append(list[i], 0)} : i \in DOMAIN list}

\* the keys of TreeNode.children
TreeNode_keys(root, node) ==
    {n[Len(node) + 1] : n \in {m \in root : /\ Len(m) = Len(node) + 1
                                            /\ SubSeq(m, 1, Len(node)) = node}}

\* TreeNode::min_value().unwrap_or(&0), TreeNode::max_value().unwrap_or(&0)
TreeNode_min_value(keys) ==
    IF keys = {} THEN 0 ELSE CHOOSE x \in keys : \A y \in keys : x <= y
\* max_value that answers the smallest key
TreeNode_max_value_smallest(keys) ==
    IF keys = {} THEN 0 ELSE CHOOSE x \in keys : \A y \in keys : x <= y
TreeNode_max_value(keys) ==
    IF keys = {} THEN 0 ELSE CHOOSE x \in keys : \A y \in keys : y <= x

RECURSIVE Ascending(_)
Ascending(keys) ==
    IF keys = {} THEN <<>>
    ELSE <<TreeNode_min_value(keys)>> \o Ascending(keys \ {TreeNode_min_value(keys)})

RECURSIVE Reversed(_)
Reversed(seq) == IF seq = <<>> THEN <<>> ELSE Append(Reversed(Tail(seq)), Head(seq))

\* a map whose iteration order changes from one execution to the next
\* (a hash map with a per-process seed)
TreeNode_iter_mut_hashed(keys) ==
    IF run = 0 THEN Ascending(keys) ELSE Reversed(Ascending(keys))

\* TreeNode::iter_mut: the children of a BTreeMap<u8, TreeNode>, by key
TreeNode_iter_mut(keys) == Ascending(keys)

\* make_sub_tree, first loop: every child gets its id and tree[id]
RECURSIVE MakeIds(_, _, _, _, _, _)
MakeIds(st, value, children, current_id, min_value, begin_pos) ==
    IF children = <<>> \/ st.err # "none" THEN st
    ELSE
      LET child_value == Head(children)
          lookup == current_id = 0 \/ min_value < 1
      IN  IF lookup /\ current_id >= Len(st.offsets)
          THEN [st EXCEPT !.err = "panic"]   \* offsets.get(..).unwrap()
          ELSE
            LET id == IF lookup THEN child_value + st.offsets[current_id + 1]
                      ELSE (child_value - min_value) + begin_pos
            IN  MakeIds([st EXCEPT !.tree = SafeIndexVec_set(@, id, current_id),
                                   !.id[Append(value, child_value)] = id],
                        value, Tail(children), current_id, min_value, begin_pos)

\* make_sub_tree, second loop: every child gets room in tree for its own
\* children, and its offset (or, for a child 0, its name's index)
RECURSIVE PlaceChildren(_, _, _, _, _)
PlaceChildren(st, root, list, value, children) ==
    IF children = <<>> \/ st.err # "none" THEN st
    ELSE
      LET child_value == Head(children)
          child == Append(value, child_value)
          \* tree2 is the tree with room for the child's children, from pos on
          next(child_min, pos, tree2, index) ==
            IF child_value = 0 THEN
                IF index = NoIndex THEN [st EXCEPT !.err = "panic"]  \* .unwrap()
                ELSE [st EXCEPT !.tree = tree2,
                                !.offsets = SafeIndexVec_set(@, st.id[child], index),
                                !.indexes = SafeIndexVec_set(@, index, st.id[child])]
            ELSE [st EXCEPT !.tree = tree2,
                            !.offsets = SafeIndexVec_set(@, st.id[child], pos - child_min),
                            !.begin_pos[child] = pos]
          grown(child_max, child_min, tree1) ==
            next(child_min, Len(tree1),
                 SafeIndexVec_set(tree1, Len(tree1) + (child_max - child_min), 0),
                 IndexOf(list, value))
          sized(child_max, child_min) ==
            grown(child_max, child_min,
                  IF Len(st.tree) > child_max THEN st.tree
                  ELSE SafeIndexVec_set(st.tree, child_max, 0))
          placed(keys) == sized(TreeNode_max_value(keys), TreeNode_min_value(keys))
      IN  PlaceChildren(placed(TreeNode_keys(root, child)), root, list, value,
                        Tail(children))

\* PsbBinaryTree::make_sub_tree; its third loop is Descend
RECURSIVE PsbBinaryTree_make_sub_tree(_, _, _, _)
RECURSIVE Descend(_, _, _, _, _)
Descend(st, root, list, value, children) ==
    IF children = <<>> \/ st.err # "none" THEN st
    ELSE Descend(PsbBinaryTree_make_sub_tree(st, root, list, Append(value, Head(children))),
                 root, list, value, Tail(children))

PsbBinaryTree_make_sub_tree(st, root, list, value) ==
    LET loops(keys, children) ==
            Descend(PlaceChildren(MakeIds(st, value, children, st.id[value],
                                          TreeNode_min_value(keys), st.begin_pos[value]),
                                  root, list, value, children),
                    root, list, value, children)
        node(keys) == loops(keys, TreeNode_iter_mut(keys))
    IN  node(TreeNode_keys(root, value))

\* Vec<u64> of the naturals of vec
AsU64s(vec) == [i \in 1..Len(vec) |-> FromNat(vec[i])]

\* PsbBinaryTree::write_bytes: the three arrays, and the bytes written
PsbBinaryTree_write_bytes(list) ==
    LET root == PsbBinaryTree_build_tree(list)
        arrays(st, offsets_written, tree_written, indexes_written) ==
            IF st.err # "none"
            THEN [err |-> st.err, ret |-> 0, bytes |-> <<>>,
                  offsets |-> <<>>, tree |-> <<>>, indexes |-> <<>>]
            ELSE [err |-> "none",
                  ret |-> offsets_written.ret + tree_written.ret + indexes_written.ret,
                  bytes |-> offsets_written.bytes \o tree_written.bytes
                                \o indexes_written.bytes,
                  offsets |-> st.offsets, tree |-> st.tree, indexes |-> st.indexes]
        made(st) == arrays(st, PsbValue_write_bytes(IntArray(AsU64s(st.offsets))),
                           PsbValue_write_bytes(IntArray(AsU64s(st.tree))),
                           PsbValue_write_bytes(IntArray(AsU64s(st.indexes))))
    IN  made(PsbBinaryTree_make_sub_tree(
                 [err |-> "none", offsets |-> <<1>>, tree |-> <<>>, indexes |-> <<>>,
                  id |-> [n \in root |-> 0], begin_pos |-> [n \in root |-> 0]],
                 root, list, <<>>))

MaxWalk == 8   \* steps of one name's walk that the model follows

\* the while loop of PsbBinaryTree::from_bytes: the bytes of one name, last
\* byte first
RECURSIVE WalkName(_, _, _, _)
WalkName(offsets, tree, id, steps) ==
    IF id = 0 THEN [err |-> "none", buffer |-> <<>>]
    ELSE IF steps >= MaxWalk THEN [err |-> "hang", buffer |-> <<>>]
    ELSE IF id >= Len(tree) THEN [err |-> "panic", buffer |-> <<>>]
    ELSE
      LET next == ToNat(tree[id + 1])
      IN  IF next >= Len(offsets) THEN [err |-> "panic", buffer |-> <<>>]
          ELSE IF ToNat(offsets[next + 1]) > id /\ build = "debug"
          THEN [err |-> "panic", buffer |-> <<>>]   \* id - offsets[next] overflows
          ELSE
            LET decoded_byte == ((id % 256) + 256 - offsets[next + 1][1]) % 256  \* as u8
                rest == WalkName(offsets, tree, next, steps + 1)
            IN  IF rest.err # "none" THEN rest
                ELSE [err |-> "none", buffer |-> <<decoded_byte>> \o rest.buffer]

\* the for loop of PsbBinaryTree::from_bytes
RECURSIVE WalkNames(_, _, _)
WalkNames(offsets, tree, indexes) ==
    IF indexes = <<>> THEN [err |-> "none", list |-> <<>>]
    ELSE IF ToNat(Head(indexes)) >= Len(tree) THEN [err |-> "panic", list |-> <<>>]
    ELSE
      LET name == WalkName(offsets, tree, ToNat(tree[ToNat(Head(indexes)) + 1]), 0)
          rest == WalkNames(offsets, tree, Tail(indexes))
      IN  IF name.err # "none" THEN [err |-> name.err, list |-> <<>>]
          ELSE IF rest.err # "none" THEN rest
          ELSE [err |-> "none", list |-> <<Reversed(name.buffer)>> \o rest.list]

\* PsbBinaryTree::from_bytes
PsbBinaryTree_from_bytes(s, pos) ==
    LET list(offsets, tree, indexes, names) ==
            IF offsets.err # "none" THEN offsets
            ELSE IF tree.err # "none" THEN tree
            ELSE IF indexes.err # "none" THEN indexes
            ELSE IF names.err # "none" THEN ReadErr(names.err)
            ELSE ReadOk(offsets.read + tree.read + indexes.read, names.list, indexes.pos)
        third(offsets, tree, indexes) ==
            list(offsets, tree, indexes, WalkNames(offsets.val, tree.val, indexes.val))
        second(offsets, tree) == third(offsets, tree, ReadIntArray(s, tree.pos))
        first(offsets) == second(offsets, ReadIntArray(s, offsets.pos))
    IN  first(ReadIntArray(s, pos))

(***************************************************************************)
(* Streams.  A sink is the sequence of its bytes; while a writer only      *)
(* appends, its position is the length of the sink.                        *)
(***************************************************************************)
\* write_u16::<LittleEndian>, write_u32::<LittleEndian> of a natural
U16(n) == <<n % 256, (n \div 256) % 256>>
U32(n) == <<n % 256, (n \div 256) % 256, (n \div 65536) % 256, (n \div (256 * 65536)) % 256>>

\* a u32 read from four bytes, as a position: from 2^24 up it is beyond
\* every stream of the model
NatOfU32(b) == IF b[4] # 0 THEN Huge ELSE b[1] + 256 * b[2] + 65536 * b[3]
NatOfU16(b) == b[1] + 256 * b[2]

\* seek(SeekFrom::Start(pos)) and a write of bytes: what is there is
\* overwritten, and the sink grows, with zeroes, as far as needed
WriteAt(s, pos, bytes) ==
    LET end == IF Len(s) > pos + Len(bytes) THEN Len(s) ELSE pos + Len(bytes)
    IN  [i \in 1..end |->
            IF i > pos /\ i <= pos + Len(bytes) THEN bytes[i - pos]
            ELSE IF i <= Len(s) THEN s[i] ELSE 0]

\* all the sequences of seqs, one after the other
RECURSIVE Concat(_)
Concat(seqs) == IF seqs = <<>> THEN <<>> ELSE Head(seqs) \o Concat(Tail(seqs))

\* the sum of the first n lengths, each with extra more
RECURSIVE LenSum(_, _, _)
LenSum(seqs, n, extra) ==
    IF n = 0 THEN 0 ELSE LenSum(seqs, n - 1, extra) + Len(seqs[n]) + extra

\* Adler32: the sums a and b over bytes, from a = 1 and b = 0, modulo 65521
\* the sum, modulo 65521, of weight * byte over the bytes lo..hi, where the
\* weight of byte i is 1 (for the sum a) or the count of bytes from i to the
\* end (for the sum b, which adds a once after every byte)
RECURSIVE AdlerSums(_, _, _, _)
AdlerSums(bytes, lo, hi, weighted) ==
    IF lo > hi THEN 0
    ELSE IF lo = hi
    THEN ((IF weighted THEN (Len(bytes) - lo + 1) % 65521 ELSE 1) * bytes[lo]) % 65521
    ELSE LET mid == (lo + hi) \div 2
         IN  (AdlerSums(bytes, lo, mid, weighted)
                 + AdlerSums(bytes, mid + 1, hi, weighted)) % 65521

\* Adler32::checksum() as the four bytes of (b << 16) | a, low byte first
Adler32(bytes) ==
    LET a == (1 + AdlerSums(bytes, 1, Len(bytes), FALSE)) % 65521
        b == ((Len(bytes) % 65521) + AdlerSums(bytes, 1, Len(bytes), TRUE)) % 65521
    IN  <<a % 256, a \div 256, b % 256, b \div 256>>

(***************************************************************************)
(* PsbHeader, PsbOffsets                                                   *)
(***************************************************************************)
PSB_SIGNATURE == 4346704
PSB_MDF_SIGNATURE == 6710381

PsbHeader(version, encryption) == [version |-> version, encryption |-> encryption]

\* PsbHeader::write_bytes: four bytes written, 8 returned
PsbHeader_write_bytes(self) == WriteOk(8, U16(self.version) \o U16(self.encryption))

\* Option<T>
Some(v) == [some |-> TRUE, v |-> v]
NoneOption == [some |-> FALSE, v |-> Nil]

PsbStringOffset(offset_pos, data_pos) == [offset_pos |-> offset_pos, data_pos |-> data_pos]
PsbResourcesOffset(offset_pos, lengths_pos, data_pos) ==
    [offset_pos |-> offset_pos, lengths_pos |-> lengths_pos, data_pos |-> data_pos]

\* PsbStringOffset::write_bytes, PsbResourcesOffset::write_bytes
PsbStringOffset_write_bytes(self) ==
    WriteOk(8, U32(self.offset_pos) \o U32(self.data_pos))
PsbResourcesOffset_write_bytes(self) ==
    WriteOk(12, U32(self.offset_pos) \o U32(self.lengths_pos) \o U32(self.data_pos))

\* PsbOffsets::default
PsbOffsets_default ==
    [name_offset |-> 0,
     strings |-> PsbStringOffset(0, 0),
     resources |-> PsbResourcesOffset(0, 0, 0),
     entry_point |-> 0,
     checksum |-> Some(<<0, 0, 0, 0>>),
     extra |-> Some(PsbResourcesOffset(0, 0, 0))]

\* PsbOffsets::write_bytes
PsbOffsets_write_bytes(self, version) ==
    LET core == U32(self.name_offset) \o PsbStringOffset_write_bytes(self.strings).bytes
                    \o PsbResourcesOffset_write_bytes(self.resources).bytes
                    \o U32(self.entry_point)
        checksum == IF self.checksum.some THEN self.checksum.v ELSE <<0, 0, 0, 0>>
    IN  IF version > 2 THEN
            IF version > 3 THEN
                IF ~self.extra.some THEN WriteErr("InvalidOffsetTable")
                ELSE WriteOk(8 + 8 + 12 + 4 + 12,
                             core \o checksum
                                  \o PsbResourcesOffset_write_bytes(self.extra.v).bytes)
            ELSE WriteOk(8 + 8 + 12 + 4, core \o checksum)
        ELSE WriteOk(8 + 8 + 12, core)

(***************************************************************************)
(* VirtualPsb and the tables gathered from its root                        *)
(***************************************************************************)
VirtualPsb(header, resources, extra, root) ==
    [header |-> header, resources |-> resources, extra |-> extra, root |-> root]

\* PsbObject::collect_names, PsbList::collect_names: the names, each once
RECURSIVE PsbObject_collect_names(_)
RECURSIVE PsbList_collect_names(_)
PsbObject_collect_names(map) ==
    DOMAIN map \cup UNION {
        IF map[k].t = "Object" THEN PsbObject_collect_names(map[k].v)
        ELSE IF map[k].t = "List" THEN PsbList_collect_names(map[k].v)
        ELSE {} : k \in DOMAIN map}
PsbList_collect_names(values) ==
    UNION {
        IF values[i].t = "Object" THEN PsbObject_collect_names(values[i].v)
        ELSE IF values[i].t = "List" THEN PsbList_collect_names(values[i].v)
        ELSE {} : i \in DOMAIN values}

\* PsbObject::collect_strings, PsbList::collect_strings
RECURSIVE PsbObject_collect_strings(_)
RECURSIVE PsbList_collect_strings(_)
PsbObject_collect_strings(map) ==
    UNION {
        IF map[k].t = "Object" THEN PsbObject_collect_strings(map[k].v)
        ELSE IF map[k].t = "List" THEN PsbList_collect_strings(map[k].v)
        ELSE IF map[k].t = "String" THEN {map[k].v}
        ELSE {} : k \in DOMAIN map}
PsbList_collect_strings(values) ==
    UNION {
        IF values[i].t = "Object" THEN PsbObject_collect_strings(values[i].v)
        ELSE IF values[i].t = "List" THEN PsbList_collect_strings(values[i].v)
        ELSE IF values[i].t = "String" THEN {values[i].v}
        ELSE {} : i \in DOMAIN values}

(***************************************************************************)
(* PsbWriter                                                               *)
(***************************************************************************)
\* PsbWriter::write_names
PsbWriter_write_names(names) == PsbBinaryTree_write_bytes(names)

\* what write_strings and write_resources leave: the sink and the pointers
Section(ret, s, offsets) == [ret |-> ret, sink |-> s, offsets |-> offsets]

\* PsbWriter::write_strings on a sink s
PsbWriter_write_strings(strings, s) ==
    LET offset_list == [i \in 1..Len(strings) |-> FromNat(LenSum(strings, i - 1, 1))]
        total_len == LenSum(strings, Len(strings), 1)
        offset_pos == Len(s)
        data == Concat([i \in 1..Len(strings) |-> Append(strings[i], 0)])
        section(offset_written) ==
            Section(offset_written.ret + total_len,
                    s \o offset_written.bytes \o data,
                    PsbStringOffset(offset_pos, offset_pos + Len(offset_written.bytes)))
    IN  section(PsbValue_write_bytes(IntArray(offset_list)))

\* write_resources that takes data_pos before it writes the lengths
PsbWriter_write_resources_data_early(resources, s) ==
    LET offset_list == [i \in 1..Len(resources) |-> FromNat(LenSum(resources, i - 1, 0))]
        length_list == [i \in 1..Len(resources) |-> FromNat(Len(resources[i]))]
        offset_pos == Len(s)
        data_written == LenSum(resources, Len(resources), 0)
        section(offsets_written, lengths_written) ==
            Section(offsets_written.ret + lengths_written.ret + data_written,
                    s \o offsets_written.bytes \o lengths_written.bytes
                      \o Concat(resources),
                    PsbResourcesOffset(
                        offset_pos,
                        offset_pos + Len(offsets_written.bytes),
                        offset_pos + Len(offsets_written.bytes)))
    IN  section(PsbValue_write_bytes(IntArray(offset_list)),
                PsbValue_write_bytes(IntArray(length_list)))

\* PsbWriter::write_resources on a sink s
PsbWriter_write_resources(resources, s) ==
    LET offset_list == [i \in 1..Len(resources) |-> FromNat(LenSum(resources, i - 1, 0))]
        length_list == [i \in 1..Len(resources) |-> FromNat(Len(resources[i]))]
        offset_pos == Len(s)
        data_written == LenSum(resources, Len(resources), 0)
        section(offsets_written, lengths_written) ==
            Section(offsets_written.ret + lengths_written.ret + data_written,
                    s \o offsets_written.bytes \o lengths_written.bytes
                      \o Concat(resources),
                    PsbResourcesOffset(
                        offset_pos,
                        offset_pos + Len(offsets_written.bytes),
                        offset_pos + Len(offsets_written.bytes)
                                   + Len(lengths_written.bytes)))
    IN  section(PsbValue_write_bytes(IntArray(offset_list)),
                PsbValue_write_bytes(IntArray(length_list)))

\* what finish leaves when it fails
FinishErr(kind, s) ==
    [err |-> kind, ret |-> 0, sink |-> s, before |-> s, file_start |-> 0,
     offsets |-> Nil, refs |-> Nil]

\* PsbWriter::finish on a sink s0 that stands at its end
PsbWriter_finish(vpsb, s0) ==
    LET file_start == Len(s0)
        header == vpsb.header
        s1 == s0 \o U32(PSB_SIGNATURE) \o PsbHeader_write_bytes(header).bytes
        offsets_end_pos == Len(s1) - file_start
        s2 == s1 \o U32(0)
        offset_start_pos == Len(s2) - file_start
        prefill == PsbOffsets_write_bytes(PsbOffsets_default, header.version)
        s3 == s2 \o prefill.bytes
        offsets_end == Len(s3) - file_start
        name_offset == Len(s3) - file_start
        \* the early returns of finish, in its order, and what it leaves
        refs == PsbRefs(Sorted(PsbObject_collect_names(vpsb.root)),
                        Sorted(PsbObject_collect_strings(vpsb.root)))
        finished_(names_written, root_written, s8, offsets, block) ==
            IF prefill.err # "none" THEN FinishErr(prefill.err, s2)
            ELSE IF names_written.err # "none" THEN FinishErr(names_written.err, s3)
            ELSE IF root_written.err # "none"
            THEN FinishErr(root_written.err,
                           s3 \o names_written.bytes \o <<PSB_TYPE_OBJECT>>)
            ELSE IF block.err # "none"
            THEN FinishErr(block.err, WriteAt(s8, offsets_end_pos, U32(offsets_end)))
            ELSE [err |-> "none", ret |-> Len(s8) - file_start,
                  sink |-> WriteAt(WriteAt(s8, offsets_end_pos, U32(offsets_end)),
                                   offset_start_pos, block.bytes),
                  before |-> s8,  \* the sink at file_end, before the rewrite
                  file_start |-> file_start, offsets |-> offsets, refs |-> refs]
        \* the second offsets.write_bytes, over the prefilled block
        rewritten(names_written, root_written, s8, offsets) ==
            finished_(names_written, root_written, s8, offsets,
                      PsbOffsets_write_bytes(offsets, header.version))
        sectioned(names_written, root_written, entry_point, strings, resources, extra) ==
            rewritten(names_written, root_written,
                      IF header.version > 3 THEN extra.sink ELSE resources.sink,
                      [name_offset |-> name_offset,
                       strings |-> strings.offsets,
                       resources |-> resources.offsets,
                       entry_point |-> entry_point,
                       checksum |-> IF header.version > 2
                                    THEN Some(Adler32(U32(offset_start_pos)
                                                      \o U32(name_offset)
                                                      \o U32(strings.offsets.offset_pos)
                                                      \o U32(strings.offsets.data_pos)
                                                      \o U32(resources.offsets.offset_pos)
                                                      \o U32(resources.offsets.lengths_pos)
                                                      \o U32(resources.offsets.data_pos)
                                                      \o U32(entry_point)))
                                    ELSE PsbOffsets_default.checksum,
                       extra |-> IF header.version > 3 THEN Some(extra.offsets)
                                 ELSE PsbOffsets_default.extra])
        resourced(names_written, root_written, entry_point, strings, resources) ==
            sectioned(names_written, root_written, entry_point, strings, resources,
                      PsbWriter_write_resources(vpsb.extra, resources.sink))
        stringed(names_written, root_written, entry_point, strings) ==
            resourced(names_written, root_written, entry_point, strings,
                      PsbWriter_write_resources(vpsb.resources, strings.sink))
        rooted(names_written, root_written) ==
            stringed(names_written, root_written,
                     Len(s3) + Len(names_written.bytes) - file_start,
                     PsbWriter_write_strings(
                         refs.strings, s3 \o names_written.bytes \o root_written.bytes))
    IN  rooted(PsbWriter_write_names(refs.names),
               PsbValue_write_bytes_refs(Object(vpsb.root), refs))

(***************************************************************************)
(* PsbReader                                                               *)
(***************************************************************************)
\* UTF_8.decode(bytes, DecoderTrap::Replace) on the strings of the model,
\* whose bytes below 0x80 stand for themselves; a byte from 0x80 up, which
\* starts no sequence here, becomes U+FFFD
RECURSIVE Utf8DecodeReplace(_)
Utf8DecodeReplace(bytes) ==
    IF bytes = <<>> THEN <<>>
    ELSE (IF Head(bytes) < 128 THEN <<Head(bytes)>> ELSE <<239, 191, 189>>)
             \o Utf8DecodeReplace(Tail(bytes))

\* seek(SeekFrom::Start(pos)), take(len).read_to_end(): the bytes that are
\* there, as many as len
ReadBlob(s, pos, len) ==
    IF pos >= Len(s) THEN <<>>
    ELSE SubSeq(s, pos + 1, IF pos + len < Len(s) THEN pos + len ELSE Len(s))

\* the two arrays of a resource section and the check of their lengths
ReadResourceArrays(s, offset_pos, lengths_pos) ==
    LET both(offsets, lengths) ==
            IF offsets.err # "none" THEN offsets
            ELSE IF lengths.err # "none" THEN lengths
            ELSE IF Len(offsets.val) < Len(lengths.val) THEN ReadErr("InvalidOffsetTable")
            ELSE ReadOk(0, [offsets |-> offsets.val, lengths |-> lengths.val], 0)
    IN  both(ReadIntArray(s, offset_pos), ReadIntArray(s, lengths_pos))

\* the loop over a resource section: one blob for each offset
ReadResourceBlobs(s, data_pos, arrays) ==
    IF Len(arrays.offsets) > Len(arrays.lengths) THEN ReadErr("panic")
    ELSE ReadOk(0, [i \in 1..Len(arrays.offsets) |->
                       ReadBlob(s, data_pos + ToNat(arrays.offsets[i]),
                                ToNat(arrays.lengths[i]))], 0)

\* read_until(0x00) from pos: through the first 0x00, or to the end
ReadUntilNul(s, pos) ==
    IF pos >= Len(s) THEN <<>>
    ELSE IF \E i \in (pos + 1)..Len(s) : s[i] = 0
    THEN SubSeq(s, pos + 1, CHOOSE i \in (pos + 1)..Len(s) :
                                s[i] = 0 /\ \A j \in (pos + 1)..(i - 1) : s[j] # 0)
    ELSE SubSeq(s, pos + 1, Len(s))

\* the loop over the string offsets
ReadStrings(s, data_pos, string_offsets) ==
    LET buffer(i) == ReadUntilNul(s, data_pos + ToNat(string_offsets[i]))
    IN  IF \E i \in 1..Len(string_offsets) : buffer(i) = <<>>
        THEN ReadErr("panic")   \* buffer[..buffer.len() - 1] of an empty buffer
        ELSE ReadOk(0, [i \in 1..Len(string_offsets) |->
                           Utf8DecodeReplace(SubSeq(buffer(i), 1, Len(buffer(i)) - 1))], 0)

PsbRefTable(names, strings, resources, extra) ==
    [names |-> names, strings |-> strings, resources |-> resources, extra |-> extra]

OpenErr(kind) == [err |-> kind, entry_point |-> 0, header |-> Nil, table |-> Nil]

\* PsbReader::open_psb on a stream s that stands at start
PsbReader_open_psb(s, start) ==
    LET signature == ReadExact(s, start, 4)
        head == ReadExact(s, start + 4, 4)
        header == PsbHeader(NatOfU16(SubSeq(head.val, 1, 2)),
                            NatOfU16(SubSeq(head.val, 3, 4)))
        words == ReadExact(s, start + 8, 32)
        word(i) == NatOfU32(SubSeq(words.val, 4 * i + 1, 4 * i + 4))
        name_offset_pos == word(1)
        strings_offset_pos == word(2)
        strings_data_pos == word(3)
        resource_offset_pos == word(4)
        resource_length_pos == word(5)
        resource_data_pos == word(6)
        entry_point == start + word(7)
        header_checksum == ReadExact(s, start + 40, 4)
        extra_words == ReadExact(s, start + 44, 12)
        extra_word(i) == NatOfU32(SubSeq(extra_words.val, 4 * i + 1, 4 * i + 4))
        \* the early returns of open_scn, in its order
        checked(extra_arrays, extra, charsets, name_datas, name_indexes, string_offsets,
                resource_arrays, names, strings, resources) ==
            IF signature.err # "none" THEN OpenErr(signature.err)
            ELSE IF signature.val # U32(PSB_SIGNATURE) THEN OpenErr("InvalidFile")
            ELSE IF head.err # "none" THEN OpenErr(head.err)
            ELSE IF words.err # "none" THEN OpenErr(words.err)
            ELSE IF header.version > 2 /\ header_checksum.err # "none"
            THEN OpenErr(header_checksum.err)
            ELSE IF header.version > 3 /\ extra_words.err # "none"
            THEN OpenErr(extra_words.err)
            ELSE IF header.version > 3 /\ extra_arrays.err # "none"
            THEN OpenErr(extra_arrays.err)
            ELSE IF extra.err # "none" THEN OpenErr(extra.err)
            ELSE IF charsets.err # "none" THEN OpenErr(charsets.err)
            ELSE IF name_datas.err # "none" THEN OpenErr(name_datas.err)
            ELSE IF name_indexes.err # "none" THEN OpenErr(name_indexes.err)
            ELSE IF string_offsets.err # "none" THEN OpenErr(string_offsets.err)
            ELSE IF resource_arrays.err # "none" THEN OpenErr(resource_arrays.err)
            ELSE IF names.err # "none" THEN OpenErr(names.err)
            ELSE IF strings.err # "none" THEN OpenErr(strings.err)
            ELSE IF resources.err # "none" THEN OpenErr(resources.err)
            ELSE [err |-> "none", entry_point |-> entry_point, header |-> header,
                  table |-> PsbRefTable(
                      [i \in 1..Len(names.list) |-> Utf8DecodeReplace(names.list[i])],
                      strings.val, resources.val, extra.val)]
        \* what is read by the arrays: the blobs, the names, the strings
        third(extra_arrays, charsets, name_datas, name_indexes, string_offsets,
              resource_arrays) ==
            checked(extra_arrays,
                    IF header.version > 3
                    THEN ReadResourceBlobs(s, start + extra_word(2), extra_arrays.val)
                    ELSE ReadOk(0, <<>>, 0),
                    charsets, name_datas, name_indexes, string_offsets, resource_arrays,
                    WalkNames(charsets.val, name_datas.val, name_indexes.val),
                    ReadStrings(s, start + strings_data_pos, string_offsets.val),
                    ReadResourceBlobs(s, start + resource_data_pos, resource_arrays.val))
        \* name_indexes stands where name_datas ends, name_datas where charsets ends
        second(extra_arrays, charsets, name_datas, string_offsets, resource_arrays) ==
            third(extra_arrays, charsets, name_datas, ReadIntArray(s, name_datas.pos),
                  string_offsets, resource_arrays)
        first(extra_arrays, charsets, string_offsets, resource_arrays) ==
            second(extra_arrays, charsets, ReadIntArray(s, charsets.pos), string_offsets,
                   resource_arrays)
    IN  first(ReadResourceArrays(s, start + extra_word(0), start + extra_word(1)),
              ReadIntArray(s, start + name_offset_pos),
              ReadIntArray(s, start + strings_offset_pos),
              ReadResourceArrays(s, start + resource_offset_pos,
                                 start + resource_length_pos))

LoadErr(kind) == [err |-> kind, psb |-> Nil]

\* load on an opened file: the root read at entry_point against the names
\* and the strings of the file; a root that is no Object is refused
PsbFile_load(s, file) ==
    LET loaded(root) ==
            IF root.err # "none" THEN LoadErr(root.err)
            ELSE IF root.val.t # "Object" THEN LoadErr("InvalidPsbRoot")
            ELSE [err |-> "none",
                  psb |-> VirtualPsb(file.header, file.table.resources, file.table.extra,
                                     root.val.v)]
    IN  loaded(PsbValue_from_bytes_refs(
                   s, file.entry_point, PsbRefs(file.table.names, file.table.strings), 0))

\* PsbFile::read_root: the value at entry_point, read by from_bytes
PsbFile_read_root(s, file) == PsbValue_from_bytes(s, file.entry_point)

\* open_psb, then load
OpenAndLoad(s, start) ==
    LET both(file, loaded) == [err |-> loaded.err, file |-> file, psb |-> loaded.psb]
        load(file) == IF file.err # "none" THEN [err |-> file.err, file |-> file, psb |-> Nil]
                      ELSE both(file, PsbFile_load(s, file))
    IN  load(PsbReader_open_psb(s, start))

(***************************************************************************)
(* MDF: "mdf\0", the size of the compressed payload, a zlib stream         *)
(***************************************************************************)
\* MdfHeader::write_bytes
MdfHeader_write_bytes(size) == WriteOk(4, U32(size))

\* The zlib stream of input.  The encoder's choice of deflate blocks is its
\* own; here the stream is the zlib header, one stored block (final, with
\* LEN and its complement) and the Adler-32 of input, high byte first.
ZlibEncoder_read_to_end(input) ==
    <<120, 218>> \o <<1>> \o U16(Len(input)) \o U16(65535 - Len(input))
        \o input \o Reversed(Adler32(input))

\* ZlibDecoder::read_to_end: the input of a well-formed stream, an error for
\* anything else (a short stream, a wrong complement, a wrong checksum)
ZlibDecoder_read_to_end(z) ==
    LET len == z[4] + 256 * z[5]
        data == SubSeq(z, 8, 7 + len)
    IN  IF Len(z) < 7 THEN ReadErr("Io")
        ELSE IF z[1] # 120 \/ (256 * z[1] + z[2]) % 31 # 0 \/ z[3] # 1 THEN ReadErr("Io")
        ELSE IF z[6] + 256 * z[7] # 65535 - len THEN ReadErr("Io")
        ELSE IF Len(z) < 7 + len + 4 THEN ReadErr("Io")
        ELSE IF SubSeq(z, 8 + len, 11 + len) # Reversed(Adler32(data)) THEN ReadErr("Io")
        ELSE ReadOk(len, data, 11 + len)

\* the bytes given to the encoder, for a size field that counts them
ZlibEncoder_total_in(input, z) == Len(input)

\* ZlibEncoder::total_out: the bytes the encoder has produced
ZlibEncoder_total_out(input, z) == Len(z)

\* MdfWriter::finish: read is the input, s0 the sink, standing at its end
MdfWriter_finish(read, s0) ==
    LET s1 == s0 \o U32(PSB_MDF_SIGNATURE)
        header_pos == Len(s0) + 4
        filled(s3, total_out) ==
            [err |-> "none", ret |-> total_out + 8,
             sink |-> WriteAt(s3, header_pos, MdfHeader_write_bytes(total_out).bytes),
             start |-> Len(s0)]
        copied(z) == filled(s1 \o MdfHeader_write_bytes(0).bytes \o z,
                            ZlibEncoder_total_out(read, z))
    IN  copied(ZlibEncoder_read_to_end(read))

\* PsbReader::open_mdf_file on a stream s that stands at start
PsbReader_open_mdf_file(s, start) ==
    LET signature == ReadExact(s, start, 4)
        mdf_header == ReadExact(s, start + 4, 4)
        compressed_buffer == ReadBlob(s, start + 8, NatOfU32(mdf_header.val))
        buffer == ZlibDecoder_read_to_end(compressed_buffer)
        failed(kind) == [err |-> kind, compressed_buffer |-> <<>>, buffer |-> <<>>,
                         file |-> Nil]
        with_file(file) == [err |-> file.err, compressed_buffer |-> compressed_buffer,
                            buffer |-> buffer.val, file |-> file]
    IN  IF signature.err # "none" THEN failed(signature.err)
        ELSE IF signature.val # U32(PSB_MDF_SIGNATURE) THEN failed("InvalidFile")
        ELSE IF mdf_header.err # "none" THEN failed(mdf_header.err)
        ELSE IF buffer.err # "none"
        THEN [err |-> buffer.err, compressed_buffer |-> compressed_buffer,
              buffer |-> <<>>, file |-> Nil]
        ELSE with_file(PsbReader_open_psb(buffer.val, 0))

(***************************************************************************)
(* The value codec as a state machine: a value is written and read back          *)
(* (WriteBytesRefs, FromBytesRefs), bytes that no writer produced are read *)
(* (Feed, FromBytes), and a payload is read as an integer of a given width *)
(* (ReadInteger).                                                          *)
(***************************************************************************)
Builds == {"debug", "release"}

\* the i64 whose low bytes are p and whose other bytes repeat p's sign
SignExtend(p) ==
    Tup8([i \in 1..8 |->
            IF i <= Len(p) THEN p[i]
            ELSE IF Len(p) > 0 /\ p[Len(p)] >= 128 THEN 255 ELSE 0])

IntegerInputs ==
    {SignExtend(p) : p \in {<<>>, <<1>>, <<12>>, <<127>>, <<128, 0>>, <<255, 0>>,
                            <<0, 1>>, <<255, 127>>, <<0, 128, 0>>,
                            <<255>>, <<128>>, <<127, 255>>, <<222, 207>>,
                            <<255, 255, 255, 255, 255, 255, 255, 0>>,
                            <<255, 255, 255, 255, 255, 255, 255, 127>>,
                            <<0, 0, 0, 0, 0, 0, 0, 128>>}}

\* 0.0, -0.0, 1.0, 122.0
FloatInputs == {<<0, 0, 0, 0>>, <<0, 0, 0, 128>>, <<0, 0, 128, 63>>, <<0, 0, 244, 66>>}
\* 0.0, 122.0
DoubleInputs == {Zero64, <<0, 0, 0, 0, 0, 128, 94, 64>>}

UintInputs ==
    {Zero64, FromNat(1), FromNat(111), FromNat(255), FromNat(256), FromNat(65536),
     <<0, 0, 0, 0, 1, 0, 0, 0>>, MaxUnsigned(8)}

\* the empty array, items of one, two and eight bytes, and an array whose
\* count takes two bytes
ArrayInputs ==
    {<<>>, <<FromNat(123), FromNat(12), FromNat(122)>>, <<Zero64>>,
     <<FromNat(256), FromNat(1)>>, <<MaxUnsigned(8)>>,
     [i \in 1..256 |-> FromNat(i % 2)]}

\* keys and strings of the sample tree
KeyA == <<97>>
KeyB == <<98>>
StrX == <<120>>
StrY == <<121, 122>>
SampleRefs == PsbRefs(<<KeyA, KeyB>>, <<StrX, StrY>>)

ScalarInputs ==
    {None, Null, Bool(FALSE), Bool(TRUE),
     CompilerNumber, CompilerString, CompilerResource, CompilerDecimal,
     CompilerArray, CompilerBool, CompilerBinaryTree,
     String(StrX), String(StrY)}
    \cup {Number(Integer(v)) : v \in IntegerInputs}
    \cup {Number(Float(v)) : v \in FloatInputs}
    \cup {Number(Double(v)) : v \in DoubleInputs}
    \cup {IntArray(a) : a \in ArrayInputs}
    \cup {StringRef(r) : r \in UintInputs}
    \cup {Resource(r) : r \in UintInputs}
    \cup {ExtraResource(r) : r \in UintInputs}

ContainerInputs ==
    {List(<<>>), Object(<<>>),
     List(<<Number(Integer(FromNat(12))), StringRef(FromNat(111))>>),
     List(<<Bool(TRUE), Bool(TRUE), Null>>),
     List(<<List(<<Null>>), Object(KeyA :> Bool(FALSE))>>),
     Object((KeyA :> Number(Integer(FromNat(12))))
                @@ (KeyB :> Number(Integer(FromNat(13))))),
     Object((KeyB :> List(<<Resource(Zero64), None>>)) @@ (KeyA :> Null)),
     Object(KeyA :> Object(KeyB :> Number(Float(<<0, 0, 128, 63>>))))}

ValueInputs == ScalarInputs \cup ContainerInputs

\* the bytes 0x00, 0x01, 0x7f, 0x80, 0xff
EdgeBytes == {0, 1, 127, 128, 255}

\* n bytes: lo first, hi last, mid between
Payload(n, lo, mid, hi) ==
    [i \in 1..n |-> IF i = n THEN hi ELSE IF i = 1 THEN lo ELSE mid]

\* payloads of an Object: the name-refs [0, 5] with the offsets [0] and
\* the child Null; the name-ref [5] with the offset [0], with the child Null
\* and without a child; the name-refs [1, 0] with the offsets [1, 0] and the
\* children Null, False
ObjectTails ==
    {<<13, 2, 13, 0, 5, 13, 1, 13, 0, 1>>,
     <<13, 1, 13, 5, 13, 1, 13, 0, 1>>,
     <<13, 1, 13, 5, 13, 1, 13, 0>>,
     <<13, 2, 13, 1, 0, 13, 2, 13, 1, 0, 1, 2>>}

\* payloads of a List: the offsets [1, 0, 1] with the children Null, False;
\* the offsets [0, 1] with the children Null and an Integer of width 0
ListTails ==
    {<<13, 3, 13, 1, 0, 1, 1, 2>>,
     <<13, 2, 13, 0, 1, 1, 4>>}

\* what follows the opcode in a stream given to from_bytes
TailInputs ==
    {<<>>, <<0>>, <<1, 13, 5>>, <<255, 255, 255, 255, 255, 255, 255, 255, 255>>,
     <<13, 0, 13, 13, 0, 13>>} \cup ObjectTails \cup ListTails

ValueInit ==
    /\ psbValue = Nil /\ stream = <<>> /\ written = Nil /\ decoded = Nil
    /\ width = 0

\* the names the trie is tried on: with and without a shared prefix, the
\* empty name, a name that is a prefix of another, and names with a byte 0
NamePool ==
    {<<>>, <<1>>, <<2>>, <<1, 2>>, <<1, 3>>, <<2, 1, 1>>, <<0>>, <<1, 0>>}

MaxNames == 3   \* longest name list

\* the lists of at most n distinct names of the pool, in every order
RECURSIVE NameLists(_)
NameLists(n) ==
    IF n = 0 THEN {<<>>}
    ELSE LET shorter == NameLists(n - 1)
         IN  shorter \cup {Append(l, x) : l \in shorter, x \in NamePool}

Distinct(l) == \A i, j \in DOMAIN l : l[i] = l[j] => i = j

\* "ab", "ac"
AbAc == <<<<97, 98>>, <<97, 99>>>>

ListInputs == {l \in NameLists(MaxNames) : Distinct(l)} \cup {AbAc}

TreeInit ==
    /\ nameList = <<>> /\ trie = Nil /\ trie2 = Nil /\ listed = Nil /\ run = 0

\* the roots the file codec is tried on: empty, one integer, strings in an
\* object and in a list, nested objects under names that share a prefix,
\* Integer(0), handles and an array, a name with a byte 0, and the empty
\* name beside a name and the same name with a byte 0 after it
RootInputs ==
    {<<>>,
     <<1>> :> Number(Integer(FromNat(12))),
     (<<1>> :> String(<<120>>))
         @@ (<<2>> :> List(<<Resource(Zero64), String(<<121, 122>>), Null>>)),
     (<<1, 2>> :> Object(<<1>> :> Bool(TRUE)))
         @@ (<<1, 3>> :> Number(Float(<<0, 0, 128, 63>>))),
     <<2>> :> Number(Integer(Zero64)),
     (<<1>> :> ExtraResource(Zero64))
         @@ (<<3>> :> IntArray(<<FromNat(1), FromNat(256)>>)),
     <<0>> :> Null,
     (<<>> :> Null) @@ (<<1>> :> String(<<120>>)) @@ (<<1, 0>> :> Bool(TRUE))}

\* one field of a written file, changed: the version word of the header
\* (to v), the opcode at entry_point (to v), or the count of one of the four
\* arrays of the resource sections (made one less)
Patch(kind, v, array) == [kind |-> kind, v |-> v, array |-> array]
NoPatch == Patch("none", 0, "none")

\* resources and extras: none, or some, one of them empty
BlobInputs == {<<<<>>, <<>>>>, <<<<<<9, 9>>, <<>>, <<8>>>>, <<<<7>>>>>>}

PsbInputs ==
    {VirtualPsb(PsbHeader(version, 0), blobs[1], blobs[2], root) :
        version \in 1..4, blobs \in BlobInputs, root \in RootInputs}

\* where the sink stands when a writer begins
StartInputs == {0, 5, 64}

\* a sink that already holds n bytes
Prefilled(n) == [i \in 1..n |-> 238]

FileInit ==
    /\ psb = Nil /\ sinkStart = 0 /\ finished = Nil /\ opened = Nil
    /\ finished2 = Nil /\ opened2 = Nil
    /\ patch = NoPatch /\ rootRead = Nil

\* what MdfWriter is given: the files PsbWriter::finish makes, and bytes
\* that are no PSB file
MdfInputs ==
    {PsbWriter_finish(p, <<>>).sink : p \in {q \in PsbInputs : q.root # (<<0>> :> Null)}}
        \cup {<<>>, <<1, 2, 3>>}

MdfInit == mdfInput = <<>> /\ mdfWritten = Nil /\ mdfOpened = Nil

Init ==
    /\ build \in Builds /\ pc = "start"
    /\ ValueInit /\ TreeInit /\ FileInit /\ MdfInit

\* PsbValue::write_bytes_refs on a fresh stream
WriteBytesRefs ==
    /\ pc = "start"
    /\ \E v \in ValueInputs :
          /\ psbValue' = v
          /\ written' = PsbValue_write_bytes_refs(v, SampleRefs)
    /\ stream' = written'.bytes
    /\ pc' = "written"
    /\ UNCHANGED <<treeVars, fileVars, mdfVars, build, decoded, width>>

\* PsbValue::from_bytes_refs on the stream just written, from its start
FromBytesRefs ==
    /\ pc = "written" /\ written.err = "none"
    /\ decoded' = PsbValue_from_bytes_refs(stream, 0, SampleRefs, 0)
    /\ pc' = "read"
    /\ UNCHANGED <<treeVars, fileVars, mdfVars, build, psbValue, stream, written, width>>

\* a stream that starts with any byte
Feed ==
    /\ pc = "start"
    /\ \E opcode \in Byte, tail \in TailInputs : stream' = <<opcode>> \o tail
    /\ pc' = "fed"
    /\ UNCHANGED <<treeVars, fileVars, mdfVars, build, psbValue, written, decoded, width>>

\* PsbValue::from_bytes
FromBytes ==
    /\ pc = "fed"
    /\ decoded' = PsbValue_from_bytes(stream, 0)
    /\ pc' = "decoded"
    /\ UNCHANGED <<treeVars, fileVars, mdfVars, build, psbValue, stream, written, width>>

\* PsbNumber::read_integer on a payload of width bytes
ReadInteger ==
    /\ pc = "start"
    /\ \E n \in 0..9, lo \in EdgeBytes, mid \in EdgeBytes, hi \in EdgeBytes :
          /\ width' = n
          /\ stream' = Payload(n, lo, mid, hi)
          /\ decoded' = PsbNumber_read_integer(n, stream', 0)
    /\ pc' = "int_read"
    /\ UNCHANGED <<treeVars, fileVars, mdfVars, build, psbValue, written>>

\* PsbValue::from_bytes_refs on a stream that starts with any byte
FromBytesRefsFed ==
    /\ pc = "fed"
    /\ decoded' = PsbValue_from_bytes_refs(stream, 0, SampleRefs, 0)
    /\ pc' = "decoded_refs"
    /\ UNCHANGED <<treeVars, fileVars, mdfVars, build, psbValue, stream, written, width>>

Next ==
    \/ WriteBytesRefs \/ FromBytesRefs \/ Feed \/ FromBytes \/ FromBytesRefsFed
    \/ ReadInteger

Spec == Init /\ [][Next]_vars

(***************************************************************************)
(* The name trie as a state machine: a name list is written (TreeWrite),   *)
(* the written arrays are read back (TreeRead), the same list is written   *)
(* by a second execution (TreeWriteAgain), and arrays that no encoder      *)
(* wrote are read (TreeReadCrafted).                                       *)
(***************************************************************************)
\* PsbBinaryTree::write_bytes on a fresh stream
TreeWrite ==
    /\ pc = "start"
    /\ \E l \in ListInputs :
          /\ nameList' = l
          /\ trie' = PsbBinaryTree_write_bytes(l)
    /\ run' = run + 1
    /\ pc' = "tree_written"
    /\ UNCHANGED <<valueVars, fileVars, mdfVars, build, trie2, listed>>

\* PsbBinaryTree::from_bytes on the stream just written, from its start
TreeRead ==
    /\ pc = "tree_written" /\ trie.err = "none"
    /\ listed' = PsbBinaryTree_from_bytes(trie.bytes, 0)
    /\ pc' = "tree_read"
    /\ UNCHANGED <<valueVars, fileVars, mdfVars, build, nameList, trie, trie2, run>>

\* PsbBinaryTree::write_bytes on the same list, once more
TreeWriteAgain ==
    /\ pc = "tree_written"
    /\ trie2' = PsbBinaryTree_write_bytes(nameList)
    /\ run' = run + 1
    /\ pc' = "tree_rewritten"
    /\ UNCHANGED <<valueVars, fileVars, mdfVars, build, nameList, trie, listed>>

\* the arrays of one to n entries, each entry at most top
RECURSIVE ArraysUpTo(_, _)
ArraysUpTo(n, top) ==
    IF n = 1 THEN {<<x>> : x \in 0..top}
    ELSE LET shorter == ArraysUpTo(n - 1, top)
         IN  shorter \cup {Append(a, x) : a \in shorter, x \in 0..top}

\* name sections that no encoder wrote: an offsets array, a tree array and
\* one tail, entries in and out of the range of the arrays
CraftedTries ==
    {<<offsets, tree, <<tail>>>> :
        offsets \in ArraysUpTo(2, 1), tree \in ArraysUpTo(3, 3), tail \in 0..3}

\* PsbBinaryTree::from_bytes on three arrays taken from a file as they are
TreeReadCrafted ==
    /\ pc = "start"
    /\ \E c \in CraftedTries :
          LET section(offsets, tree, indexes) ==
                  [err |-> "none",
                   ret |-> offsets.ret + tree.ret + indexes.ret,
                   bytes |-> offsets.bytes \o tree.bytes \o indexes.bytes,
                   offsets |-> c[1], tree |-> c[2], indexes |-> c[3]]
          IN  /\ trie' = section(PsbValue_write_bytes(IntArray(AsU64s(c[1]))),
                                 PsbValue_write_bytes(IntArray(AsU64s(c[2]))),
                                 PsbValue_write_bytes(IntArray(AsU64s(c[3]))))
              /\ listed' = PsbBinaryTree_from_bytes(trie'.bytes, 0)
    /\ pc' = "crafted_read"
    /\ UNCHANGED <<valueVars, fileVars, mdfVars, build, nameList, trie2, run>>

NextTree == TreeReadCrafted \/ TreeWrite \/ TreeRead \/ TreeWriteAgain

SpecTree == Init /\ [][NextTree]_vars

\* ---------------------------------------------------------------------
\* Properties of the name trie, checked under SpecTree

\* no name of l holds the byte 0x00
NoNul(l) == \A i \in DOMAIN l : \A j \in DOMAIN l[i] : l[i][j] # 0

\* from_bytes gave back the names written, in their order, and the tails
\* array has one entry for each
TrieReadBack ==
    /\ listed.err = "none"
    /\ listed.val = nameList
    /\ Len(trie.indexes) = Len(nameList)

Finish ==
    /\ pc = "start"
    /\ \E v \in PsbInputs, p \in StartInputs :
          /\ psb' = v
          /\ sinkStart' = p
          /\ finished' = PsbWriter_finish(v, Prefilled(p))
    /\ pc' = "finished"
    /\ UNCHANGED <<valueVars, treeVars, mdfVars, build, opened, finished2, opened2,
                   patch, rootRead>>

\* PsbReader::open_psb on the written file, from where it starts, and load
OpenLoad ==
    /\ pc = "finished" /\ finished.err = "none"
    /\ opened' = OpenAndLoad(finished.sink, sinkStart)
    /\ pc' = "loaded"
    /\ UNCHANGED <<valueVars, treeVars, mdfVars, build, psb, sinkStart, finished,
                   finished2, opened2, patch, rootRead>>

\* PsbWriter::finish of what was loaded, on a fresh sink
FinishAgain ==
    /\ pc = "loaded" /\ opened.err = "none"
    /\ finished2' = PsbWriter_finish(opened.psb, <<>>)
    /\ pc' = "refinished"
    /\ UNCHANGED <<valueVars, treeVars, mdfVars, build, psb, sinkStart, finished,
                   opened, opened2, patch, rootRead>>

\* PsbReader::open_psb on the second file, and load
OpenLoadAgain ==
    /\ pc = "refinished" /\ finished2.err = "none"
    /\ opened2' = OpenAndLoad(finished2.sink, 0)
    /\ pc' = "reloaded"
    /\ UNCHANGED <<valueVars, treeVars, mdfVars, build, psb, sinkStart, finished,
                   opened, finished2, patch, rootRead>>

\* the versions, the opcodes and the arrays a patch is tried with
PatchVersions == {0, 5}
PatchOpcodes == {PSB_TYPE_NULL, PSB_TYPE_LIST}
PatchArrays == {"offsets", "lengths", "extra_offsets", "extra_lengths"}

\* where the array named by a patch stands in the sink, and its length
PatchedArrayPos(offsets, name) ==
    CASE name = "offsets" -> offsets.resources.offset_pos
      [] name = "lengths" -> offsets.resources.lengths_pos
      [] name = "extra_offsets" -> offsets.extra.v.offset_pos
      [] OTHER -> offsets.extra.v.lengths_pos
PatchedArrayLen(vpsb, name) ==
    IF name \in {"offsets", "lengths"} THEN Len(vpsb.resources)
    ELSE IF vpsb.header.version > 3 THEN Len(vpsb.extra) ELSE 0

\* the patches that can be made to the file written for vpsb
PatchInputs(vpsb) ==
    {Patch("version", v, "none") : v \in PatchVersions}
        \cup {Patch("root", op, "none") : op \in PatchOpcodes}
        \cup {Patch("count", PatchedArrayLen(vpsb, a) - 1, a) :
                a \in {b \in PatchArrays : PatchedArrayLen(vpsb, b) > 0}}

\* the written file with the patch made
PatchedSink ==
    CASE patch.kind = "none" -> finished.sink
      [] patch.kind = "version" ->
            WriteAt(finished.sink, finished.file_start + 4, U16(patch.v))
      [] patch.kind = "root" ->
            WriteAt(finished.sink, finished.file_start + finished.offsets.entry_point,
                    <<patch.v>>)
      [] OTHER ->
            WriteAt(finished.sink, PatchedArrayPos(finished.offsets, patch.array) + 1,
                    <<patch.v>>)

\* a field of the written file is changed
PatchFile ==
    /\ pc = "finished" /\ finished.err = "none"
    /\ \E p \in PatchInputs(psb) : patch' = p
    /\ pc' = "patched"
    /\ UNCHANGED <<valueVars, treeVars, mdfVars, build, psb, sinkStart, finished,
                   opened, finished2, opened2, rootRead>>

\* PsbReader::open_psb on the patched file, from where it starts, and load
OpenPatched ==
    /\ pc = "patched"
    /\ opened' = OpenAndLoad(PatchedSink, sinkStart)
    /\ pc' = "patched_opened"
    /\ UNCHANGED <<valueVars, treeVars, mdfVars, build, psb, sinkStart, finished,
                   finished2, opened2, patch, rootRead>>

\* PsbFile::read_root on a file that open_psb opened
ReadRoot ==
    /\ pc \in {"loaded", "patched_opened"} /\ opened.file.err = "none"
    /\ rootRead' = PsbFile_read_root(PatchedSink, opened.file)
    /\ pc' = "root_read"
    /\ UNCHANGED <<valueVars, treeVars, mdfVars, build, psb, sinkStart, finished,
                   opened, finished2, opened2, patch>>

NextFile ==
    \/ Finish \/ OpenLoad \/ FinishAgain \/ OpenLoadAgain
    \/ PatchFile \/ OpenPatched \/ ReadRoot

SpecFile == Init /\ [][NextFile]_vars

(***************************************************************************)
(* The MDF wrapper as a state machine: bytes are wrapped (MdfFinish) and   *)
(* the wrapped file is opened (OpenMdf).                                   *)
(***************************************************************************)
\* MdfWriter::finish on a sink that stands at p
MdfFinish ==
    /\ pc = "start"
    /\ \E input \in MdfInputs, p \in StartInputs :
          /\ mdfInput' = input
          /\ mdfWritten' = MdfWriter_finish(input, Prefilled(p))
    /\ pc' = "mdf_written"
    /\ UNCHANGED <<valueVars, treeVars, fileVars, build, mdfOpened>>

\* PsbReader::open_mdf_file on the written file, from where it starts
OpenMdf ==
    /\ pc = "mdf_written"
    /\ mdfOpened' = PsbReader_open_mdf_file(mdfWritten.sink, mdfWritten.start)
    /\ pc' = "mdf_opened"
    /\ UNCHANGED <<valueVars, treeVars, fileVars, build, mdfInput, mdfWritten>>

NextMdf == MdfFinish \/ OpenMdf

SpecMdf == Init /\ [][NextMdf]_vars

\* ---------------------------------------------------------------------
\* Properties of the file codec, checked under SpecFile
\* ---------------------------------------------------------------------
\* what load gave back from two files is the same: root, strings,
\* resources and extras
SameLoaded(x, y) ==
    /\ ValueEq(Object(x.psb.root), Object(y.psb.root))
    /\ x.file.table.strings = y.file.table.strings
    /\ x.psb.resources = y.psb.resources
    /\ x.psb.extra = y.psb.extra

\* C2: every file that finish produced opens and loads; writing what was
\* loaded to a fresh sink succeeds; and the file so written loads to the
\* same root, strings, resources and extras as the first file did.
C2_FileRoundTrip ==
    /\ pc = "loaded" => opened.err = "none"
    /\ pc = "refinished" => finished2.err = "none"
    /\ pc = "reloaded" => opened2.err = "none" /\ SameLoaded(opened, opened2)

\* the offset block of the written file: the bytes from 12 up to the
\* checksum word at 40, and the checksum word, both counted from file_start
StoredBlock == SubSeq(finished.sink, finished.file_start + 13, finished.file_start + 40)
StoredChecksum == SubSeq(finished.sink, finished.file_start + 41, finished.file_start + 44)

\* C7: in a written file of version 3 or later the word at 40 is the
\* Adler-32 of the word 12 followed by the seven pointers of the block, as
\* they stand in the file; in a file of version 1 or 2 the block has no
\* such word and the names begin right after its 28 bytes.
C7_HeaderChecksum ==
    (pc = "finished" /\ finished.err = "none") =>
        IF psb.header.version > 2
        THEN StoredChecksum = Adler32(U32(12) \o StoredBlock)
        ELSE finished.offsets.name_offset = 12 + 28

\* ---------------------------------------------------------------------
\* Properties of the MDF wrapper, checked under SpecMdf
\* ---------------------------------------------------------------------
\* the size field of the written MDF file, and the bytes that follow it
StoredSize == SubSeq(mdfWritten.sink, mdfWritten.start + 5, mdfWritten.start + 8)
StoredStream == SubSeq(mdfWritten.sink, mdfWritten.start + 9, Len(mdfWritten.sink))

\* C8: the size field of a written MDF file is the byte length of the zlib
\* stream that follows it; open_mdf_file takes exactly that stream as the
\* compressed payload, and the bytes it decompresses are the bytes the
\* writer was given.
C8_MdfSizeAndRoundTrip ==
    /\ pc \in {"mdf_written", "mdf_opened"} =>
          /\ StoredSize = U32(Len(StoredStream))
          /\ StoredStream = ZlibEncoder_read_to_end(mdfInput)
    /\ pc = "mdf_opened" =>
          /\ mdfOpened.compressed_buffer = StoredStream
          /\ mdfOpened.buffer = mdfInput

\* a PSB file of version 4 with strings and resources was wrapped behind 64
\* bytes, opened, and its names were read from the decompressed bytes
C8_Witness ==
    /\ pc = "mdf_opened"
    /\ mdfWritten.start = 64
    /\ Len(mdfInput) > 90
    /\ mdfOpened.err = "none"
    /\ mdfOpened.file.header.version = 4
    /\ mdfOpened.file.table.strings = <<<<120>>, <<121, 122>>>>
    /\ mdfOpened.file.table.resources = <<<<9, 9>>, <<>>, <<8>>>>

\* ---------------------------------------------------------------------
\* Properties of the value codec, checked under Spec

\* v fits in n bytes of two's complement
FitsSigned(v, n) == SignExtend(SubSeq(v, 1, n)) = v
MinSignedWidth(v) ==
    CHOOSE n \in 0..8 : FitsSigned(v, n) /\ \A m \in 0..(n - 1) : ~FitsSigned(v, m)
\* v < 2^(8n)
FitsUnsigned(v, n) == \A i \in (n + 1)..8 : v[i] = 0
MinUnsignedWidth(v) ==
    CHOOSE n \in 1..8 : FitsUnsigned(v, n) /\ \A m \in 1..(n - 1) : ~FitsUnsigned(v, m)

\* the opcode a handle variant is written under
HandleBase(v) ==
    IF v.t = "StringRef" THEN PSB_TYPE_STRING_N
    ELSE IF v.t = "Resource" THEN PSB_TYPE_RESOURCE_N
    ELSE PSB_TYPE_EXTRA_N

\* the tombstone of each opcode 0x80..0x86
TombstoneVariants ==
    <<CompilerNumber, CompilerString, CompilerResource, CompilerDecimal,
      CompilerArray, CompilerBool, CompilerBinaryTree>>
TombstoneOf(opcode) == TombstoneVariants[opcode - 127]

\* C1: every value is written without error by write_bytes_refs, and
\* from_bytes_refs on the written bytes, against the same tables, gives a
\* value structurally equal to it.
C1_EncodeDecodeRoundTrip ==
    /\ pc = "written" => written.err = "none"
    /\ pc = "read" => decoded.err = "none" /\ ValueEq(decoded.val, psbValue)

\* C4: Integer(v) is written as opcode 0x04+N and exactly N payload bytes,
\* N the smallest width whose two's complement holds v; a handle is written
\* under its base opcode plus the smallest N in 1..8 with value < 2^(8N),
\* followed by N bytes.
C4_MinimalWidths ==
    pc = "written" =>
        /\ (psbValue.t = "Number" /\ psbValue.v.k = "Integer") =>
              /\ written.err = "none"
              /\ stream = <<PSB_TYPE_INTEGER_N + MinSignedWidth(psbValue.v.v)>>
                            \o SubSeq(psbValue.v.v, 1, MinSignedWidth(psbValue.v.v))
        /\ psbValue.t \in {"StringRef", "Resource", "ExtraResource"} =>
              /\ written.err = "none"
              /\ stream = <<HandleBase(psbValue) + MinUnsignedWidth(psbValue.v)>>
                            \o SubSeq(psbValue.v, 1, MinUnsignedWidth(psbValue.v))

\* C5: Integer(0) is written as the single byte 0x04, and the byte sequence
\* [0x04] decodes to Integer(0).
C5_IntegerZero ==
    /\ (pc = "written" /\ psbValue = Number(Integer(Zero64))) =>
          written.err = "none" /\ stream = <<PSB_TYPE_INTEGER_N>>
    /\ (pc = "decoded" /\ stream = <<PSB_TYPE_INTEGER_N>>) =>
          decoded.err = "none" /\ decoded.val = Number(Integer(Zero64))

\* C6: for every width N in 1..8, read_integer returns the N payload bytes
\* sign-extended to 64 bits (u - 2^(8N) when u >= 2^(8N-1), u otherwise),
\* N = 8 included.
C6_ReadIntegerSignExtends ==
    (pc = "int_read" /\ width \in 1..8) =>
        /\ decoded.err = "none"
        /\ decoded.read = width
        /\ decoded.val = SignExtend(stream)

\* C10: each opcode 0x80..0x86 decodes to its own tombstone, consuming one
\* byte, and each tombstone is written as that one opcode.
C10_TombstonesRoundTrip ==
    /\ (pc = "decoded" /\ stream[1] \in PSB_COMPILER_INTEGER..PSB_COMPILER_BINARY_TREE) =>
          /\ decoded.err = "none"
          /\ decoded.read = 1
          /\ decoded.val = TombstoneOf(stream[1])
    /\ (pc = "written" /\ \E op \in 128..134 : psbValue = TombstoneOf(op)) =>
          /\ written.err = "none"
          /\ \E op \in 128..134 : psbValue = TombstoneOf(op) /\ stream = <<op>>

\* C11 as stated: the empty Object is written as opcode 0x21 followed by two
\* empty IntArrays of two bytes each, 0x0D 0x0D.
C11_EmptyObjectTwoByteArrays ==
    (pc = "written" /\ psbValue = Object(<<>>)) =>
        /\ written.err = "none"
        /\ stream = <<PSB_TYPE_OBJECT, 13, 13, 13, 13>>

\* C11, with the count byte of each array: the empty Object is written as
\* opcode 0x21 followed by two empty IntArrays, each the three bytes 0x0D
\* (count width 1), 0x00 (count 0), 0x0D (item width 1); 7 bytes are written
\* and 7 is returned.
C11_EmptyObject ==
    (pc = "written" /\ psbValue = Object(<<>>)) =>
        /\ written.err = "none"
        /\ written.ret = 7
        /\ stream = <<PSB_TYPE_OBJECT, 13, 0, 13, 13, 0, 13>>

\* the empty Object was written
C11_Witness ==
    /\ pc = "written" /\ psbValue = Object(<<>>)
    /\ written.err = "none" /\ Len(stream) = 7 /\ stream[1] = PSB_TYPE_OBJECT

\* the bytes 0x26..0x7f and 0x87..0xff, which are no opcode
NoOpcode == (38..127) \cup (135..255)

C13_ObjectRead ==
    /\ pc = "decoded_refs" /\ stream = <<PSB_TYPE_OBJECT, 13, 0, 13, 13, 0, 13>>
    /\ decoded.err = "none" /\ decoded.val = Object(<<>>)

\* C14: write_bytes on a name list in which some name holds the byte 0x00
\* ends with an error (not a panic) and writes no array.
C14_NulKeyRejected ==
    (pc = "tree_written" /\ ~NoNul(nameList)) =>
        /\ trie.err \notin {"none", "panic"}
        /\ trie.bytes = <<>>

\* C15: open_psb on a file whose version word is outside 1..4 fails with
\* UnknownHeaderVersion.
C15_UnknownVersionRejected ==
    (pc = "patched_opened" /\ patch.kind = "version") =>
        opened.err = "UnknownHeaderVersion"

\* C16, on files written at position 0: open_psb on a file whose resource
\* (or extra-resource) lengths array has one entry less than its offsets
\* array fails with InvalidOffsetTable; and open_psb on the file as written,
\* whose two arrays have the same length, succeeds and loads one blob for
\* each entry, the blobs that were written.
C16_ShortLengthsRejected ==
    /\ (pc = "patched_opened" /\ sinkStart = 0 /\ patch.kind = "count"
            /\ patch.array \in {"lengths", "extra_lengths"}) =>
          opened.err = "InvalidOffsetTable"
    /\ (pc = "loaded" /\ sinkStart = 0) =>
          /\ opened.err = "none"
          /\ opened.file.table.resources = psb.resources
          /\ psb.header.version > 3 => opened.file.table.extra = psb.extra

\* C17: read_root on an opened file whose value at entry_point is no Object
\* fails with an invalid-root error, and a value that read_root returns is
\* an Object.
C17_NonObjectRootRejected ==
    /\ (pc = "root_read" /\ patch.kind = "root") => rootRead.err = "InvalidPsbRoot"
    /\ (pc = "root_read" /\ rootRead.err = "none") => rootRead.val.t = "Object"

\* every Resource handle of value is below resources_len and every
\* ExtraResource handle below extra_len
RECURSIVE HandlesInRange(_, _, _)
HandlesInRange(value, resources_len, extra_len) ==
    CASE value.t = "Resource" -> ToNat(value.v) < resources_len
      [] value.t = "ExtraResource" -> ToNat(value.v) < extra_len
      [] value.t = "List" ->
            \A i \in DOMAIN value.v : HandlesInRange(value.v[i], resources_len, extra_len)
      [] value.t = "Object" ->
            \A k \in DOMAIN value.v : HandlesInRange(value.v[k], resources_len, extra_len)
      [] OTHER -> TRUE

\* the extras a file of the version of vpsb holds
ExtrasWritten(vpsb) == IF vpsb.header.version > 3 THEN Len(vpsb.extra) ELSE 0

\* C18: finish on a VirtualPsb with a Resource or ExtraResource handle that
\* is not below the number of resources or extras of the file fails with
\* InvalidIndex, so that every written file has its handles in range; and
\* every root that open_psb and load return has its handles in range of the
\* resources and extras returned with it.
C18_HandlesInRange ==
    /\ (pc = "finished"
            /\ ~HandlesInRange(Object(psb.root), Len(psb.resources), ExtrasWritten(psb))) =>
          finished.err = "InvalidIndex"
    /\ (pc = "loaded" /\ opened.err = "none") =>
          HandlesInRange(Object(opened.psb.root), Len(opened.psb.resources),
                         Len(opened.psb.extra))

\* the strings found in sink s where the pointers of a string section,
\* counted from start, say they are
StringsAt(s, start, strings) ==
    LET array == ReadIntArray(s, start + strings.offset_pos)
        read == ReadStrings(s, start + strings.data_pos, array.val)
    IN  IF array.err # "none" THEN ReadErr(array.err) ELSE read

\* the blobs found in sink s where the pointers of a resource section,
\* counted from start, say they are
BlobsAt(s, start, section) ==
    LET arrays == ReadResourceArrays(s, start + section.offset_pos,
                                     start + section.lengths_pos)
        read == ReadResourceBlobs(s, start + section.data_pos, arrays.val)
    IN  IF arrays.err # "none" THEN ReadErr(arrays.err) ELSE read

\* C19: after finish on a sink that stood at p, the bytes before p are as
\* they were; the block of the pointers that finish computed stands at
\* p + 12; and counted from p, the first byte of the signature, name_offset
\* is where the names begin, entry_point where the root's opcode stands, and
\* the pointers of strings, resources and (from version 4) extras are where
\* their arrays and data stand.
C19_PointersFromFileStart ==
    (pc = "finished" /\ finished.err = "none") =>
        /\ SubSeq(finished.sink, 1, sinkStart) = Prefilled(sinkStart)
        /\ SubSeq(finished.sink, sinkStart + 1, sinkStart + 4) = U32(PSB_SIGNATURE)
        /\ LET block == PsbOffsets_write_bytes(finished.offsets, psb.header.version).bytes
           IN  SubSeq(finished.sink, sinkStart + 13, sinkStart + 12 + Len(block)) = block
        /\ LET names == PsbBinaryTree_from_bytes(
                            finished.sink, sinkStart + finished.offsets.name_offset)
           IN  names.err = "none" /\ names.val = finished.refs.names
        /\ finished.sink[sinkStart + finished.offsets.entry_point + 1] = PSB_TYPE_OBJECT
        /\ LET strings == StringsAt(finished.sink, sinkStart, finished.offsets.strings)
           IN  strings.err = "none" /\ strings.val = finished.refs.strings
        /\ LET resources == BlobsAt(finished.sink, sinkStart, finished.offsets.resources)
           IN  resources.err = "none" /\ resources.val = psb.resources
        /\ psb.header.version > 3 =>
              LET extra == BlobsAt(finished.sink, sinkStart, finished.offsets.extra.v)
              IN  extra.err = "none" /\ extra.val = psb.extra

\* a write that gave Ok returned the number of bytes it appended
ReturnsAppended(w) == w.err = "none" => w.ret = Len(w.bytes)

\* C20: in a finished file every write that finish made returned the number
\* of bytes it appended: the header's write_bytes, the offset block's
\* write_bytes, the root's write_bytes_refs, and finish itself, whose sink
\* grew by what it returned.
C20_ReturnsBytesAppended ==
    (pc = "finished" /\ finished.err = "none") =>
        /\ ReturnsAppended(PsbHeader_write_bytes(psb.header))
        /\ ReturnsAppended(PsbOffsets_write_bytes(finished.offsets, psb.header.version))
        /\ ReturnsAppended(PsbValue_write_bytes_refs(Object(psb.root), finished.refs))
        /\ finished.ret = Len(finished.sink) - sinkStart

\* C21: a read that gave Ok returned the number of bytes it consumed: after
\* from_bytes on a stream read from its start, and after read_integer on a
\* payload of any width, the returned read size is the position the stream
\* was left at.
C21_ReturnsBytesConsumed ==
    (pc \in {"decoded", "int_read"} /\ decoded.err = "none") =>
        decoded.read = decoded.pos

\* the pointers of a resource section stand in the order offsets, lengths,
\* data
ResourcesInOrder(section) ==
    section.offset_pos < section.lengths_pos /\ section.lengths_pos < section.data_pos

\* the bytes of a finished file from the root's opcode to its end
BytesFromRoot == finished.ret - finished.offsets.entry_point

\* the bytes from the root's opcode to the data that data_pos points at:
\* the root and every section between
BytesFromRootTo(data_pos) ==
    PsbValue_write_bytes_refs(Object(psb.root), finished.refs).ret
        + (data_pos - finished.offsets.strings.offset_pos)

\* C22: in a finished file the sections lie in the order names, root,
\* strings, resources, extras: the offset block ends no later than
\* name_offset, and name_offset < entry_point < strings.offset_pos <
\* strings.data_pos <= resources.offset_pos < resources.lengths_pos <
\* resources.data_pos.  From version 4 the extras follow the resources in the
\* same order and the file ends with their data; below version 4 the file
\* ends with the data of the resources, whatever extras were given.
C22_SectionOrder ==
    (pc = "finished" /\ finished.err = "none") =>
        LET offsets == finished.offsets
            version == psb.header.version
            block == PsbOffsets_write_bytes(offsets, version).bytes
        IN  /\ 12 + Len(block) <= offsets.name_offset
            /\ offsets.name_offset < offsets.entry_point
            /\ offsets.entry_point < offsets.strings.offset_pos
            /\ offsets.strings.offset_pos < offsets.strings.data_pos
            /\ offsets.strings.data_pos <= offsets.resources.offset_pos
            /\ ResourcesInOrder(offsets.resources)
            /\ IF version >= 4
               THEN /\ offsets.resources.data_pos <= offsets.extra.v.offset_pos
                    /\ ResourcesInOrder(offsets.extra.v)
                    /\ BytesFromRoot = BytesFromRootTo(offsets.extra.v.data_pos)
                                         + LenSum(psb.extra, Len(psb.extra), 0)
               ELSE BytesFromRoot = BytesFromRootTo(offsets.resources.data_pos)
                                      + LenSum(psb.resources, Len(psb.resources), 0)

\* a version-3 file was finished from a VirtualPsb that has resources and
\* extras, on a sink that did not start empty
C22_Witness ==
    /\ pc = "finished" /\ finished.err = "none"
    /\ psb.header.version = 3 /\ psb.resources # <<>> /\ psb.extra # <<>>
    /\ sinkStart > 0
    /\ DOMAIN psb.root # {}

\* the size of the offset block of a version
BlockSize(version) == IF version > 3 THEN 44 ELSE IF version > 2 THEN 32 ELSE 28

\* C23: the rewrite at the end of finish changes only the 4 bytes at file
\* offset 8 and the offset block at file offset 12: the block it writes has
\* the size of the block that was reserved, 28, 32 or 44 bytes by version,
\* the sink keeps its length, and every byte outside file offsets 8 up to
\* the end of the block is what it was before the rewrite.
C23_FixupFrame ==
    (pc = "finished" /\ finished.err = "none") =>
        LET version == psb.header.version
            reserved == PsbOffsets_write_bytes(PsbOffsets_default, version).bytes
            block == PsbOffsets_write_bytes(finished.offsets, version).bytes
        IN  /\ Len(reserved) = BlockSize(version)
            /\ Len(block) = Len(reserved)
            /\ Len(finished.sink) = Len(finished.before)
            /\ \A i \in 1..Len(finished.sink) :
                  (i <= sinkStart + 8 \/ i > sinkStart + 12 + Len(block)) =>
                      finished.sink[i] = finished.before[i]

\* in the tree decoded from a file, every key is a key of the original at
\* the same place and every String of the original is a StringRef below the
\* length of strings whose entry is the original string
RECURSIVE RefsResolve(_, _, _)
RefsResolve(original, emitted, strings) ==
    CASE original.t = "Object" ->
            /\ emitted.t = "Object"
            /\ DOMAIN emitted.v = DOMAIN original.v
            /\ \A k \in DOMAIN original.v :
                  RefsResolve(original.v[k], emitted.v[k], strings)
      [] original.t = "List" ->
            /\ emitted.t = "List"
            /\ Len(emitted.v) = Len(original.v)
            /\ \A i \in 1..Len(original.v) :
                  RefsResolve(original.v[i], emitted.v[i], strings)
      [] original.t = "String" ->
            /\ emitted.t = "StringRef"
            /\ ToNat(emitted.v) < Len(strings)
            /\ strings[ToNat(emitted.v) + 1] = original.v
      [] OTHER -> TRUE

\* a table is sorted and holds no entry twice
SortedDistinct(table) == table = Sorted({table[i] : i \in DOMAIN table})

\* the names written into a finished file, read from name_offset
NamesWritten ==
    PsbBinaryTree_from_bytes(finished.sink, sinkStart + finished.offsets.name_offset)

\* the strings written into a finished file, read from the byte after the
\* root
StringsWritten ==
    LET array == ReadIntArray(
                     finished.sink,
                     sinkStart + finished.offsets.entry_point
                       + PsbValue_write_bytes_refs(Object(psb.root), finished.refs).ret)
    IN  IF array.err # "none" THEN ReadErr(array.err)
        ELSE ReadStrings(finished.sink, array.pos, array.val)

\* the root section of a finished file, its name-refs resolved by the names
\* of the file
RootEmitted(names) ==
    PsbValue_from_bytes_refs(finished.sink, sinkStart + finished.offsets.entry_point,
                             PsbRefs(names, <<>>), 0)

\* C24: in a finished file the names and the strings are sorted tables
\* without duplicates, every name-ref of the root section is below the
\* number of names and names the original key, and every String of the
\* original root is emitted as a StringRef below the number of strings whose
\* entry is the original string.
C24_RefsResolve ==
    (pc = "finished" /\ finished.err = "none") =>
        /\ NamesWritten.err = "none" /\ SortedDistinct(NamesWritten.val)
        /\ StringsWritten.err = "none" /\ SortedDistinct(StringsWritten.val)
        /\ RootEmitted(NamesWritten.val).err = "none"
        /\ RefsResolve(Object(psb.root), RootEmitted(NamesWritten.val).val,
                       StringsWritten.val)

\* the items of an array of u64 grow from each to the next
StrictlyIncreasing(array) ==
    \A i \in 1..(Len(array) - 1) : ULt(array[i], array[i + 1])

\* in sink s the value emitted at pos for original has, in every Object, one
\* name-ref and one offset for each key, the i-th name-ref naming the i-th
\* key in sorted order, the name-refs and the offsets strictly increasing
\* and the first offset 0
RECURSIVE EmittedSorted(_, _, _, _)
EmittedSorted(original, s, pos, names) ==
    CASE original.t = "Object" ->
            LET keys == Sorted(DOMAIN original.v)
                name_refs == ReadIntArray(s, pos + 1)
                offsets == ReadIntArray(s, name_refs.pos)
            IN  /\ s[pos + 1] = PSB_TYPE_OBJECT
                /\ name_refs.err = "none" /\ offsets.err = "none"
                /\ Len(name_refs.val) = Len(keys) /\ Len(offsets.val) = Len(keys)
                /\ \A i \in 1..Len(keys) :
                      /\ ToNat(name_refs.val[i]) < Len(names)
                      /\ names[ToNat(name_refs.val[i]) + 1] = keys[i]
                /\ StrictlyIncreasing(name_refs.val)
                /\ StrictlyIncreasing(offsets.val)
                /\ Len(keys) > 0 => offsets.val[1] = Zero64
                /\ \A i \in 1..Len(keys) :
                      EmittedSorted(original.v[keys[i]], s,
                                    offsets.pos + ToNat(offsets.val[i]), names)
      [] original.t = "List" ->
            LET offsets == ReadIntArray(s, pos + 1)
            IN  /\ s[pos + 1] = PSB_TYPE_LIST
                /\ offsets.err = "none" /\ Len(offsets.val) = Len(original.v)
                /\ \A i \in 1..Len(original.v) :
                      EmittedSorted(original.v[i], s,
                                    offsets.pos + ToNat(offsets.val[i]), names)
      [] OTHER -> TRUE

\* C25: in a finished file every Object of the root section, the root and
\* the Objects under it, holds its children in the sorted order of their
\* keys: with the sorted names of finish the name-refs are strictly
\* increasing, and the child offsets are strictly increasing from 0.
C25_ObjectKeysSorted ==
    (pc = "finished" /\ finished.err = "none") =>
        EmittedSorted(Object(psb.root), finished.sink,
                      sinkStart + finished.offsets.entry_point, finished.refs.names)

\* a file was finished whose root holds two keys, the first of them an
\* Object with a key of its own
C25_Witness ==
    /\ pc = "finished" /\ finished.err = "none"
    /\ DOMAIN psb.root = {<<1, 2>>, <<1, 3>>}
    /\ psb.root[<<1, 2>>].t = "Object"
    /\ finished.refs.names = <<<<1>>, <<1, 2>>, <<1, 3>>>>

\* C26: from_bytes_refs on an Object whose two arrays were read either
\* fails with InvalidOffsetTable and gives no object, when a name-ref is not
\* below the number of names, or, when it gives an object, maps for every
\* position i the name at name_refs[i] to the value that stands offsets[i]
\* bytes after the two arrays (the last position of a name-ref that comes
\* twice).
C26_ObjectDecode ==
    (pc = "decoded_refs" /\ stream[1] = PSB_TYPE_OBJECT) =>
        LET name_refs == ReadIntArray(stream, 1)
            offsets == ReadIntArray(stream, name_refs.pos)
            names == SampleRefs.names
            at(i) == PsbValue_from_bytes_refs(
                         stream, offsets.pos + ToNat(offsets.val[i]), SampleRefs, 1)
        IN  (name_refs.err = "none" /\ offsets.err = "none") =>
               IF \E i \in 1..Len(name_refs.val) : ToNat(name_refs.val[i]) >= Len(names)
               THEN decoded.err = "InvalidOffsetTable" /\ decoded.val = Nil
               ELSE decoded.err = "none" =>
                      /\ decoded.val.t = "Object"
                      /\ \A i \in 1..Len(name_refs.val) :
                            (\A j \in (i + 1)..Len(name_refs.val) :
                                name_refs.val[j] # name_refs.val[i]) =>
                               LET key == names[ToNat(name_refs.val[i]) + 1]
                               IN  /\ key \in DOMAIN decoded.val.v
                                   /\ i <= Len(offsets.val)
                                   /\ at(i).err = "none"
                                   /\ ValueEq(decoded.val.v[key], at(i).val)

\* C27: from_bytes_refs on a List whose offset array was read gives, for an
\* empty array, the empty list and leaves the stream right after the array;
\* otherwise, when it gives a list, child i is the value that stands
\* offsets[i] bytes after the array, the payload length it reports is the
\* greatest offset plus the bytes of the value that stands there, and the
\* stream is left that many bytes after the array.
C27_ListDecode ==
    (pc = "decoded_refs" /\ stream[1] = PSB_TYPE_LIST) =>
        LET offsets == ReadIntArray(stream, 1)
            anchor == offsets.pos
            at(offset) ==
                PsbValue_from_bytes_refs(stream, anchor + ToNat(offset), SampleRefs, 1)
            O_max == UMax(offsets.val)
            length == at(O_max).pos - anchor
        IN  offsets.err = "none" =>
               IF Len(offsets.val) = 0
               THEN /\ decoded.err = "none" /\ decoded.val = List(<<>>)
                    /\ decoded.read = 1 + offsets.read /\ decoded.pos = anchor
               ELSE decoded.err = "none" =>
                      /\ decoded.val.t = "List"
                      /\ Len(decoded.val.v) = Len(offsets.val)
                      /\ \A i \in 1..Len(offsets.val) :
                            /\ at(offsets.val[i]).err = "none"
                            /\ ValueEq(decoded.val.v[i], at(offsets.val[i]).val)
                      /\ decoded.read = 1 + offsets.read + length
                      /\ decoded.pos = anchor + length

\* the bytes of an array A of u64 under the count width N1 and the item
\* width N2: opcode, count, item opcode, items, all little-endian
UintArrayBytes(A, N1, N2) ==
    <<PSB_TYPE_INTEGER_ARRAY_N + N1>> \o SubSeq(FromNat(Len(A)), 1, N1)
        \o <<PSB_TYPE_INTEGER_ARRAY_N + N2>>
        \o [k \in 1..(N2 * Len(A)) |-> A[((k - 1) \div N2) + 1][((k - 1) % N2) + 1]]

\* C28: an IntArray A is written with the count in the fewest bytes that
\* hold |A|, at least one, and every item in the fewest bytes that hold the
\* greatest item, one byte for the empty array, which is written as
\* 0x0D 0x00 0x0D; and the written bytes decode to A.
C28_UintArrayRoundTrip ==
    LET A == psbValue.v
        N1 == MinUnsignedWidth(FromNat(Len(A)))
        N2 == IF A = <<>> THEN 1 ELSE MinUnsignedWidth(UMax(A))
    IN  /\ (pc = "written" /\ psbValue.t = "IntArray") =>
              /\ written.err = "none"
              /\ stream = UintArrayBytes(A, N1, N2)
              /\ A = <<>> => stream = <<13, 0, 13>>
        /\ (pc = "read" /\ psbValue.t = "IntArray") =>
              /\ decoded.err = "none"
              /\ decoded.val.t = "IntArray" /\ decoded.val.v = A

\* the array [256, 1] was written with items of two bytes and read back
C28_Witness ==
    /\ pc = "read" /\ psbValue.t = "IntArray"
    /\ psbValue.v = <<FromNat(256), FromNat(1)>>
    /\ stream = <<13, 2, 14, 0, 1, 1, 0>>
    /\ decoded.err = "none" /\ decoded.val.v = psbValue.v

\* C29: a handle is written under an opcode of its own family with a width
\* N in 1..4, followed by N bytes: a string-ref (a StringRef, or a String
\* written by its index) in 0x15..0x18, a resource-ref in 0x19..0x1C, an
\* extra-resource-ref in 0x22..0x25.
C29_HandleOpcodeInFamily ==
    (pc = "written"
       /\ psbValue.t \in {"String", "StringRef", "Resource", "ExtraResource"}) =>
        LET base == IF psbValue.t = "String" THEN PSB_TYPE_STRING_N
                    ELSE HandleBase(psbValue)
        IN  /\ written.err = "none"
            /\ stream[1] \in (base + 1)..(base + 4)
            /\ Len(stream) = 1 + (stream[1] - base)

\* C30: for every triple of arrays (offsets, tree, tails) read from a file,
\* written by the encoder or not, the walk id -> tree[id] from tree[tail]
\* reaches the sentinel 0 after finitely many steps and indexes no array
\* outside its length.
C30_NameWalkTerminates ==
    pc \in {"tree_read", "crafted_read"} => listed.err \notin {"hang", "panic"}

====
